---------------------------- MODULE Spec2Model ----------------------------
(***************************************************************************)
(* A model of the text-to-SQL chatbot: the SQL safety gate                 *)
(* (modules/sql_validator.py), the query executor and its connection pool  *)
(* (modules/sql_executor.py, modules/db_connection.py), the conversation   *)
(* store (modules/chat_history.py), the schema grounder                    *)
(* (modules/schema_extractor.py), the identifier sanitizer                 *)
(* (modules/project_manager.py) and the question pipeline (app.py).        *)
(*                                                                         *)
(* A Python str is a sequence of one-character strings.                    *)
(***************************************************************************)
EXTENDS Naturals, Integers, Sequences, FiniteSets, TLC

VARIABLES
    pool_used,      \* connections checked out of the shared pool
    chat_sessions,  \* chat_sessions table: session id -> its row, or NoRow
    chat_history,   \* chat_history table: rows in insertion order
    clock,          \* the last wall-clock reading a write has taken
    recent_query_results,   \* st.session_state.recent_query_results
    pc,             \* where process_user_question stands
    run,            \* its arguments and local variables
    log,            \* what the run has called so far (history variable)
    runs,           \* questions asked so far
    gq,         \* safety gate: the query string handed to validate_sql
    gres,       \* safety gate: validate_sql's return value, or NoVerdict
    sname,      \* sanitizer: the input of sanitize_name
    sres,       \* sanitizer: what sanitize_name did, or NoResult
    sx_schema,  \* schema grounder: the namespace it describes
    sx_data,    \* schema grounder: the tables of each schema of the database
    sx_out,     \* schema grounder: the description it built, or <<>>
    pm_schemas, \* project manager: the schemas of the database
    pm_tables,  \* project manager: the tables, as <<schema, table>>
    pm_created, \* what create_project has created, as <<owner, schema>>
    pm_ret,     \* project manager: the last call and what it returned
    written,    \* conversation store: messages written so far
    set_back,   \* conversation store: times the wall clock was set back
    st_ret,     \* conversation store: the last call and what it returned
    fcall,      \* a pure function of the application: the call
    fret,       \* a pure function of the application: what the call returned
    active_schema,  \* st.session_state.active_schema
    schema_text,    \* st.session_state.schema_text
    db_connected,   \* st.session_state.db_connected
    asked       \* the last process_user_question call (history variable)

gateVars == <<gq, gres>>
sanVars == <<sname, sres>>
sxVars == <<sx_schema, sx_data, sx_out>>
pmVars == <<pm_schemas, pm_tables, pm_created, pm_ret>>
stVars == <<written, set_back, st_ret>>
fnVars == <<fcall, fret>>
uiVars == <<active_schema, schema_text, db_connected, asked>>
dbVars == <<pool_used, chat_sessions, chat_history, clock>>
pipeVars == <<dbVars, recent_query_results, pc, run, log, runs>>
\* What the pipeline leaves alone.
aside == <<gateVars, sanVars, sxVars, pmVars, stVars, fnVars, uiVars>>
vars == <<pipeVars, gateVars, sanVars, sxVars, pmVars, stVars, fnVars, uiVars>>

----------------------------------------------------------------------------
(* Python str primitives.                                                  *)

LowerLetters ==
    <<"a","b","c","d","e","f","g","h","i","j","k","l","m",
      "n","o","p","q","r","s","t","u","v","w","x","y","z">>

UpperLetters ==
    <<"A","B","C","D","E","F","G","H","I","J","K","L","M",
      "N","O","P","Q","R","S","T","U","V","W","X","Y","Z">>

Digits == {"0","1","2","3","4","5","6","7","8","9"}

Range(s) == {s[i] : i \in DOMAIN s}

LowerSet == Range(LowerLetters)
UpperSet == Range(UpperLetters)

\* Non-ASCII letters of the inputs: Python's \w and str.lower treat them as
\* letters ("e'" stands for U+00E9, "E'" for U+00C9).
UnicodeLower == {"e'"}
UnicodeUpper == {"E'"}

\* str.isspace characters that occur in the inputs.
Whitespace == {" ", "\n", "\t"}

\* [A-Za-z0-9_] plus the Unicode letters: what \w and \b count as a word
\* character for a str pattern.
WordChars ==
    LowerSet \cup UpperSet \cup Digits \cup {"_"}
        \cup UnicodeLower \cup UnicodeUpper

IndexOf(s, c) == CHOOSE i \in DOMAIN s : s[i] = c

UpperChar(c) ==
    IF c \in LowerSet THEN UpperLetters[IndexOf(LowerLetters, c)]
    ELSE IF c \in UnicodeLower THEN "E'"
    ELSE c

LowerChar(c) ==
    IF c \in UpperSet THEN LowerLetters[IndexOf(UpperLetters, c)]
    ELSE IF c \in UnicodeUpper THEN "e'"
    ELSE c

\* str.upper / str.lower
Upper(s) == [i \in DOMAIN s |-> UpperChar(s[i])]
Lower(s) == [i \in DOMAIN s |-> LowerChar(s[i])]

RECURSIVE LStrip(_)
LStrip(s) ==
    IF s # <<>> /\ Head(s) \in Whitespace THEN LStrip(Tail(s)) ELSE s

RECURSIVE RStrip(_)
RStrip(s) ==
    IF s # <<>> /\ s[Len(s)] \in Whitespace
    THEN RStrip(SubSeq(s, 1, Len(s) - 1))
    ELSE s

\* str.strip()
Strip(s) == RStrip(LStrip(s))

\* str.startswith
StartsWith(s, p) == Len(s) >= Len(p) /\ SubSeq(s, 1, Len(p)) = p

\* str.split(sep) for a one-character separator: the list of pieces.
RECURSIVE SplitOn(_, _)
SplitOn(s, sep) ==
    IF \A i \in DOMAIN s : s[i] # sep THEN <<s>>
    ELSE LET k == CHOOSE i \in DOMAIN s :
                      s[i] = sep /\ \A j \in 1..(i - 1) : s[j] # sep
         IN  <<SubSeq(s, 1, k - 1)>> \o SplitOn(SubSeq(s, k + 1, Len(s)), sep)

\* sep.join(list) for a one-character separator.
RECURSIVE JoinWith(_, _)
JoinWith(parts, sep) ==
    IF parts = <<>> THEN <<>>
    ELSE IF Len(parts) = 1 THEN parts[1]
    ELSE parts[1] \o <<sep>> \o JoinWith(Tail(parts), sep)

\* str.count(c) for a one-character c.
CountChar(s, c) == Cardinality({i \in DOMAIN s : s[i] = c})

----------------------------------------------------------------------------
(* The SQL safety gate: modules/sql_validator.py                           *)

KwSelect == <<"S","E","L","E","C","T">>

DANGEROUS_KEYWORDS ==
    << <<"I","N","S","E","R","T">>,
       <<"U","P","D","A","T","E">>,
       <<"D","E","L","E","T","E">>,
       <<"D","R","O","P">>,
       <<"A","L","T","E","R">>,
       <<"C","R","E","A","T","E">>,
       <<"T","R","U","N","C","A","T","E">>,
       <<"G","R","A","N","T">>,
       <<"R","E","V","O","K","E">>,
       <<"E","X","E","C">>,
       <<"E","X","E","C","U","T","E">>,
       <<"C","A","L","L">>,
       <<"M","E","R","G","E">>,
       <<"R","E","P","L","A","C","E">> >>

\* _remove_leading_comments: the text from the first line that is neither
\* blank nor a "--" comment; the whole query when there is no such line.
RemoveLeadingComments(query) ==
    LET lines == SplitOn(query, "\n")
        Code(i) == LET stripped == Strip(lines[i])
                   IN  stripped # <<>> /\ ~StartsWith(stripped, <<"-", "-">>)
    IN  IF \E i \in DOMAIN lines : Code(i)
        THEN LET i == CHOOSE k \in DOMAIN lines :
                          Code(k) /\ \A j \in 1..(k - 1) : ~Code(j)
             IN  JoinWith(SubSeq(lines, i, Len(lines)), "\n")
        ELSE query

\* _starts_with_select
StartsWithSelect(normalized_query) ==
    StartsWith(RemoveLeadingComments(normalized_query), KwSelect)

\* The search without its \b anchors: keyword anywhere in s, inside a longer
\* identifier included.
SearchSubstring(keyword, s) ==
    \E i \in 1..(Len(s) - Len(keyword) + 1) :
        SubSeq(s, i, i + Len(keyword) - 1) = keyword

\* re.search(r'\b' + keyword + r'\b', s): keyword begins and ends with a
\* letter, so \b holds where the neighbouring character is no word character.
SearchWord(keyword, s) ==
    \E i \in 1..(Len(s) - Len(keyword) + 1) :
        /\ SubSeq(s, i, i + Len(keyword) - 1) = keyword
        /\ (i = 1 \/ s[i - 1] \notin WordChars)
        /\ (i + Len(keyword) - 1 = Len(s) \/ s[i + Len(keyword)] \notin WordChars)

\* _contains_dangerous_keywords: the first keyword of the list found, or "".
ContainsDangerousKeywords(normalized_query) ==
    IF \E k \in DOMAIN DANGEROUS_KEYWORDS :
           SearchWord(DANGEROUS_KEYWORDS[k], normalized_query)
    THEN DANGEROUS_KEYWORDS[
             CHOOSE k \in DOMAIN DANGEROUS_KEYWORDS :
                 /\ SearchWord(DANGEROUS_KEYWORDS[k], normalized_query)
                 /\ \A j \in 1..(k - 1) :
                        ~SearchWord(DANGEROUS_KEYWORDS[j], normalized_query)]
    ELSE <<>>

\* re.sub(r"'[^']*'", "", s): leftmost non-overlapping spans from a quote to
\* the next quote are removed; a quote with no later quote stays.
RECURSIVE RemoveStringLiterals(_)
RemoveStringLiterals(s) ==
    IF s = <<>> THEN <<>>
    ELSE IF Head(s) # "'" THEN <<Head(s)>> \o RemoveStringLiterals(Tail(s))
    ELSE IF \E j \in 2..Len(s) : s[j] = "'"
         THEN LET j == CHOOSE k \in 2..Len(s) :
                           s[k] = "'" /\ \A m \in 2..(k - 1) : s[m] # "'"
              IN  RemoveStringLiterals(SubSeq(s, j + 1, Len(s)))
         ELSE s

\* The number of ';' the validator tolerates.
MaxSemicolons == 1

\* _contains_multiple_statements
ContainsMultipleStatements(sql_query) ==
    CountChar(RemoveStringLiterals(sql_query), ";") > MaxSemicolons

\* SQLValidator.validate / validate_sql: (is_valid, error_message).
Validate(sql_query) ==
    IF sql_query = <<>> \/ Strip(sql_query) = <<>>
    THEN [ok |-> FALSE, reason |-> "SQL query is empty"]
    ELSE LET normalized_query == Upper(Strip(sql_query)) IN
         IF ~StartsWithSelect(normalized_query)
         THEN [ok |-> FALSE, reason |-> "Query must start with SELECT"]
         ELSE IF ContainsDangerousKeywords(normalized_query) # <<>>
         THEN [ok |-> FALSE, reason |-> "Dangerous operation detected"]
         ELSE IF ContainsMultipleStatements(sql_query)
         THEN [ok |-> FALSE, reason |-> "Multiple SQL statements are not allowed"]
         ELSE [ok |-> TRUE, reason |-> ""]

----------------------------------------------------------------------------
(* The gate on bounded inputs: every concatenation of at most MaxFrags     *)
(* fragments, and the queries the specification names.                     *)

MaxFrags == 3

Sp == <<" ">>
Nl == <<"\n">>
Semi == <<";">>
Quote == <<"'">>
Select1 == <<"S","E","L","E","C","T"," ","1">>
SelectX == <<"s","e","l","e","c","t"," ","x">>
DropUpper == <<"D","R","O","P">>
DropLower == <<"d","r","o","p">>
CommentLine == <<"-","-"," ","c">>
SemiLiteral == <<"'",";","'">>

GateFragments ==
    { Sp, Nl, Semi, Quote, Select1, SelectX, DropUpper, DropLower,
      CommentLine, SemiLiteral, <<"_">>, <<"x">> }

RECURSIVE Concat(_)
Concat(parts) == IF parts = <<>> THEN <<>> ELSE Head(parts) \o Concat(Tail(parts))

\* "SELECT 1;"
ExSelect1 == Select1 \o Semi
\* "SELECT 1; DROP TABLE x;"
ExSelectDrop ==
    Select1 \o Semi \o Sp \o DropUpper \o Sp \o <<"T","A","B","L","E">>
        \o Sp \o <<"x">> \o Semi
\* "SELECT created_at FROM t"
ExCreatedAt ==
    KwSelect \o Sp \o <<"c","r","e","a","t","e","d","_","a","t">> \o Sp
        \o <<"F","R","O","M">> \o Sp \o <<"t">>
\* "SELECT 1; SELECT 2"
ExChained == Select1 \o Semi \o Sp \o KwSelect \o Sp \o <<"2">>
\* "-- c\n  SELECT 1"
ExIndented == CommentLine \o Nl \o Sp \o Sp \o Select1
\* "-- c\n\n-- c\nselect x;"
ExCommented == CommentLine \o Nl \o Nl \o CommentLine \o Nl \o SelectX \o Semi

GateExamples ==
    { ExSelect1, ExSelectDrop, ExCreatedAt, ExChained, ExIndented, ExCommented }

GateInputs ==
    { Concat(fs) : fs \in UNION { [1..n -> GateFragments] : n \in 0..MaxFrags } }
        \cup GateExamples

NoVerdict == [ok |-> FALSE, reason |-> "none"]

\* validate_sql(gq)
ValidateSql ==
    /\ gres = NoVerdict
    /\ gres' = Validate(gq)
    /\ UNCHANGED gq

----------------------------------------------------------------------------
(* The identifier sanitizer: modules/project_manager.py                    *)

\* str.replace(' ', '_')
ReplaceSpaces(s) == [i \in DOMAIN s |-> IF s[i] = " " THEN "_" ELSE s[i]]

\* re.sub(r'[^\w]', '', s)
IsWordChar(c) == c \in WordChars
DropNonWord(s) == SelectSeq(s, IsWordChar)

Unknown == <<"u","n","k","n","o","w","n">>

\* sanitize_name: it has no raise statement, and none of the str methods it
\* calls raises on a str, so it returns on every input.
SanitizeName(name) ==
    IF name = <<>> THEN [raised |-> FALSE, value |-> Unknown]
    ELSE LET cleaned == DropNonWord(ReplaceSpaces(Lower(Strip(name))))
         IN  IF cleaned = <<>> THEN [raised |-> FALSE, value |-> Unknown]
             ELSE [raised |-> FALSE, value |-> cleaned]

MaxNameLen == 3

\* PostgreSQL's identifier length, the limit create_project checks.
MaxIdentLen == 63

NameChars == {"a", "B", "1", "_", " ", "-", "e'"}

\* A name of MaxIdentLen + 1 letters.
LongName == [i \in 1..(MaxIdentLen + 1) |-> "a"]

NameInputs ==
    UNION { [1..n -> NameChars] : n \in 0..MaxNameLen } \cup {LongName}

NoResult == [raised |-> FALSE, value |-> <<"None">>]

\* sanitize_name(sname)
Sanitize ==
    /\ sres = NoResult
    /\ sres' = SanitizeName(sname)
    /\ UNCHANGED sname

----------------------------------------------------------------------------
(* The project manager: modules/project_manager.py                         *)

\* self.schema_prefix
SchemaPrefix == <<"p","r","o","j","_">>

Public == <<"p","u","b","l","i","c">>
InformationSchema ==
    <<"i","n","f","o","r","m","a","t","i","o","n","_","s","c","h","e","m","a">>
PgCatalog == <<"p","g","_","c","a","t","a","l","o","g">>
PgToast == <<"p","g","_","t","o","a","s","t">>

\* protected_schemas of delete_project
ProtectedSchemas == {Public, InformationSchema, PgCatalog, PgToast}

\* The table _create_metadata_table creates in a project schema.
ProjectTables == "project_tables"

\* value LIKE pattern: '_' matches any one character, '%' any run of
\* characters, every other character itself.
RECURSIVE LikeMatch(_, _)
LikeMatch(pattern, value) ==
    IF pattern = <<>> THEN value = <<>>
    ELSE IF Head(pattern) = "%"
    THEN \/ LikeMatch(Tail(pattern), value)
         \/ value # <<>> /\ LikeMatch(pattern, Tail(value))
    ELSE /\ value # <<>>
         /\ Head(pattern) = "_" \/ Head(pattern) = Head(value)
         /\ LikeMatch(Tail(pattern), Tail(value))

\* The schema name create_project composes.
ComposeSchemaName(user_id, project_name) ==
    SchemaPrefix \o SanitizeName(user_id).value \o <<"_">>
        \o SanitizeName(project_name).value

\* What the database answers to a call: every statement succeeds, or the
\* first or the second statement of the call raises.
DbOutcomes == {"ok", "first fails", "second fails"}

NoCall ==
    [op |-> "none", user_id |-> <<>>, name |-> <<>>, db |-> "ok",
     raised |-> FALSE, value |-> <<>>, deleted |-> FALSE, listed |-> {},
     schemas |-> {}, tables |-> {}]

\* create_project(user_id, project_name) with no data file: the schemas and
\* tables after the call, whether it raised, and the name it returned.
CreateProject(schemas, tables, user_id, project_name, db) ==
    LET schema_name == ComposeSchemaName(user_id, project_name)
        failed == [schemas |-> schemas, tables |-> tables,
                   raised |-> TRUE, value |-> <<>>]
    IN  IF Len(schema_name) > MaxIdentLen THEN failed
        ELSE IF db = "first fails" THEN failed
        ELSE IF db = "second fails"
        THEN [failed EXCEPT !.schemas = schemas \cup {schema_name}]
        ELSE [schemas |-> schemas \cup {schema_name},
              tables |-> tables \cup {<<schema_name, ProjectTables>>},
              raised |-> FALSE, value |-> schema_name]

\* validate_schema_exists
ValidateSchemaExists(schemas, schema_name, query_ok) ==
    query_ok /\ schema_name \in schemas

\* delete_project without its guards: every name may be dropped.
MayDeleteAny(schema_name) == schema_name = schema_name

\* The two guards of delete_project: the prefix and the protected names.
MayDelete(schema_name) ==
    /\ StartsWith(schema_name, SchemaPrefix)
    /\ schema_name \notin ProtectedSchemas

\* delete_project(schema_name): DROP SCHEMA ... CASCADE removes the schema
\* and the tables in it. The ValueError of a refused name is raised inside
\* the try block and caught by its except clause, which returns False.
DeleteProject(schemas, tables, schema_name, db) ==
    LET kept == [schemas |-> schemas, tables |-> tables, deleted |-> FALSE,
                 raised |-> FALSE]
    IN  IF ~MayDelete(schema_name) THEN kept
        ELSE IF ~ValidateSchemaExists(schemas, schema_name, db # "first fails")
        THEN kept
        ELSE IF db = "second fails" THEN kept
        ELSE [schemas |-> schemas \ {schema_name},
              tables |-> {t \in tables : t[1] # schema_name},
              deleted |-> TRUE, raised |-> FALSE]

\* The table the ingestor makes of the uploaded file.
DataTable == "data"

\* What the ingestion of the uploaded file can do.
IngestOutcomes == {"ok", "fails"}

\* The 'Create Project' button of the dashboard: create_project, then the
\* ingestion of the file into the schema, then, when the ingestion reports a
\* failure, delete_project on the schema; an error create_project raises
\* ends the action in the except clause.
PressCreateProject(schemas, tables, user_id, project_name, db, ingest, cleanup) ==
    LET r == CreateProject(schemas, tables, user_id, project_name, db)
        schema_name == r.value
    IN  IF r.raised
        THEN [schemas |-> r.schemas, tables |-> r.tables, failed |-> TRUE]
        ELSE IF ingest = "ok"
        THEN [schemas |-> r.schemas,
              tables |-> r.tables \cup {<<schema_name, DataTable>>},
              failed |-> FALSE]
        ELSE LET d == DeleteProject(r.schemas, r.tables, schema_name, cleanup)
             IN  [schemas |-> d.schemas, tables |-> d.tables, failed |-> TRUE]

\* list_user_projects(user_id): the schema names of the rows it returns, {}
\* when the catalog query raises.
ListUserProjects(schemas, user_id, db) ==
    LET pattern == SchemaPrefix \o SanitizeName(user_id).value \o <<"_", "%">>
    IN  IF db = "first fails" THEN {}
        ELSE {schema_name \in schemas : LikeMatch(pattern, schema_name)}

\* str.split('_', 2): at most two splits, the rest of the string is the
\* third part.
SplitTwice(s) ==
    LET parts == SplitOn(s, "_")
    IN  IF Len(parts) <= 3 THEN parts
        ELSE <<parts[1], parts[2], JoinWith(SubSeq(parts, 3, Len(parts)), "_")>>

\* str.title(): a letter after a letter is lower-cased, any other letter is
\* upper-cased.
IsLetter(c) == c \in LowerSet \cup UpperSet \cup UnicodeLower \cup UnicodeUpper
Title(s) ==
    [i \in DOMAIN s |->
        IF i > 1 /\ IsLetter(s[i - 1]) THEN LowerChar(s[i]) ELSE UpperChar(s[i])]

\* str.replace('_', ' ')
ReplaceUnderscores(s) == [i \in DOMAIN s |-> IF s[i] = "_" THEN " " ELSE s[i]]

\* The dictionary list_user_projects makes of one row.
ListEntry(schema_name) ==
    LET parts == SplitTwice(schema_name)
        project_name == IF Len(parts) > 2 THEN parts[3] ELSE schema_name
    IN  [schema_name |-> schema_name,
         project_name |-> project_name,
         display_name |-> Title(ReplaceUnderscores(project_name))]

----------------------------------------------------------------------------
(* The connection pool and the executor: modules/db_connection.py,         *)
(* modules/sql_executor.py                                                 *)

\* maxconn of the SimpleConnectionPool
MaxConn == 10

\* What the backend does with a query that reached it.
BackendOutcomes == {"rows", "empty", "error"}

Rows == <<"row1">>

\* DatabaseConnection.get_connection: getconn() raises once maxconn
\* connections are checked out.
CanGetConnection(used) == used < MaxConn

\* DatabaseConnection.execute_query: the connection it takes is returned in
\* its finally block, so the call leaves the pool as it found it; it raises
\* when no connection can be had.
ExecuteQueryOk(used) == CanGetConnection(used)

\* SQLExecutor.execute / execute_sql. return_connection is reached only on
\* the success path: when a cursor call raises, both except clauses return
\* without giving the connection back.
SQLExecutorExecute(used, backend) ==
    IF ~CanGetConnection(used)
    THEN [used |-> used, success |-> FALSE, results |-> <<>>,
          error |-> "Execution error: connection pool exhausted"]
    ELSE IF backend = "error"
    THEN [used |-> used + 1, success |-> FALSE, results |-> <<>>,
          error |-> "Database error"]
    ELSE [used |-> used, success |-> TRUE,
          results |-> IF backend = "rows" THEN Rows ELSE <<>>,
          error |-> ""]

\* SET search_path TO {schema_name}, public
SearchPath(schema_name) == <<schema_name, Public>>

\* The schema in which PostgreSQL finds an unqualified table name: the first
\* schema of the search path that has a table of that name.
NoSchema == <<"no schema">>
RECURSIVE ResolveTable(_, _, _)
ResolveTable(tables, search_path, table_name) ==
    IF search_path = <<>> THEN NoSchema
    ELSE IF <<Head(search_path), table_name>> \in tables THEN Head(search_path)
    ELSE ResolveTable(tables, Tail(search_path), table_name)

\* SQLExecutor.execute of a query that reads the unqualified table_name:
\* whether it succeeded, and the schema whose table it read.
ExecuteOnTable(tables, schema_name, table_name) ==
    LET resolved == ResolveTable(tables, SearchPath(schema_name), table_name)
    IN  IF resolved = NoSchema
        THEN [success |-> FALSE, read |-> <<>>]
        ELSE [success |-> TRUE, read |-> <<resolved>>]

----------------------------------------------------------------------------
(* The conversation store: modules/chat_history.py                         *)

\* Every text of the model is a tuple of strings, None included.
NewChat == <<"N","e","w"," ","C","h","a","t">>

\* A row of chat_sessions, and the value that stands for no row.
NoRow == [name |-> <<"no row">>, created_at |-> 0]

\* The length up to which a first message is the session title.
TitleLen == 30

\* CHAT_HISTORY_LIMIT's default
HistoryLimit == 10

\* The content length above which format_history_for_llm summarizes a turn.
SummaryThreshold == 500

\* The text length up to which summarize_text returns its input.
SummaryMinLen == 150

\* The timestamps stored with the messages.
Timestamps(history) == {history[i].timestamp : i \in DOMAIN history}

\* Wall-clock time between two datetime.now() calls of consecutive writes.
ClockStep == 2

\* datetime.now(): the reading after the last one; two readings are never
\* the same instant.
Now(last, history) ==
    LET from == last + ClockStep
    IN  CHOOSE t \in from..(from + Len(history)) :
            /\ t \notin Timestamps(history)
            /\ \A u \in from..(t - 1) : u \in Timestamps(history)

\* create_session with ON CONFLICT (id) DO UPDATE: an existing row is
\* written over.
CreateSessionOverwrites(sessions, used, session_id, name, now) ==
    IF ExecuteQueryOk(used)
    THEN [sessions EXCEPT ![session_id] = [name |-> name, created_at |-> now]]
    ELSE sessions

\* create_session: INSERT ... ON CONFLICT (id) DO NOTHING; an error is caught.
CreateSession(sessions, used, session_id, name, now) ==
    IF ExecuteQueryOk(used) /\ sessions[session_id] = NoRow
    THEN [sessions EXCEPT ![session_id] = [name |-> name, created_at |-> now]]
    ELSE sessions

\* _maybe_rename_session: the title is the message, cut to TitleLen
\* characters and "..." when longer; any error is swallowed.
MaybeRenameSession(sessions, used, session_id, first_message) ==
    IF ExecuteQueryOk(used) /\ sessions[session_id].name = NewChat
    THEN [sessions EXCEPT ![session_id].name =
              IF Len(first_message) > TitleLen
              THEN SubSeq(first_message, 1, TitleLen) \o <<".", ".", ".">>
              ELSE first_message]
    ELSE sessions

\* insert_message at wall-clock time now: the store after the call and the
\* value returned.
InsertMessage(sessions, history, used, session_id, role, content, now) ==
    LET created == CreateSession(sessions, used, session_id, NewChat, now)
        inserted == ExecuteQueryOk(used) /\ created[session_id] # NoRow
    IN  IF ~inserted
        THEN [sessions |-> created, history |-> history, ok |-> FALSE]
        ELSE [sessions |-> IF role = "user"
                           THEN MaybeRenameSession(created, used, session_id, content)
                           ELSE created,
              history |-> Append(history,
                  [session_id |-> session_id, role |-> role,
                   content |-> content, timestamp |-> now]),
              ok |-> TRUE]

\* The rows of one session, in the order they were inserted.
RECURSIVE SessionRows(_, _)
SessionRows(history, session_id) ==
    IF history = <<>> THEN <<>>
    ELSE (IF Head(history).session_id = session_id THEN <<Head(history)>> ELSE <<>>)
             \o SessionRows(Tail(history), session_id)

\* ORDER BY timestamp DESC
OrderByTimestampDesc(rows) ==
    [k \in DOMAIN rows |->
        CHOOSE r \in Range(rows) :
            Cardinality({q \in Range(rows) : q.timestamp > r.timestamp}) = k - 1]

\* reversed(results)
Reversed(seq) == [k \in DOMAIN seq |-> seq[Len(seq) + 1 - k]]

\* get_recent_messages: the rows of the session ordered by timestamp, latest
\* first, cut to limit rows and reversed; [] when the query fails.
GetRecentMessages(history, used, session_id, limit) ==
    LET rows == OrderByTimestampDesc(SessionRows(history, session_id))
        results == IF Len(rows) <= limit THEN rows ELSE SubSeq(rows, 1, limit)
    IN  IF ~ExecuteQueryOk(used) THEN <<>>
        ELSE [k \in DOMAIN results |->
                 [role |-> Reversed(results)[k].role,
                  content |-> Reversed(results)[k].content,
                  timestamp |-> Reversed(results)[k].timestamp]]

\* clear_session_history: the history after the call.
ClearSessionHistory(history, used, session_id) ==
    IF ~ExecuteQueryOk(used) THEN history
    ELSE SelectSeq(history, LAMBDA row : row.session_id # session_id)

\* delete_session deleting the row of the session and leaving its messages.
DeleteSessionRowOnly(sessions, history, used, session_id) ==
    IF ~ExecuteQueryOk(used)
    THEN [sessions |-> sessions, history |-> history]
    ELSE [sessions |-> [sessions EXCEPT ![session_id] = NoRow],
          history |-> history]

\* delete_session: the messages of the session, then its row.
DeleteSession(sessions, history, used, session_id) ==
    IF ~ExecuteQueryOk(used)
    THEN [sessions |-> sessions, history |-> history]
    ELSE [sessions |-> [sessions EXCEPT ![session_id] = NoRow],
          history |-> ClearSessionHistory(history, used, session_id)]

\* What the summarizer's model call can do.
SummarizerOutcomes == {"ok", "fails"}

\* The text the summarizer's model returns.
Summary == <<"summary">>

\* summarize_text: short texts come back as they are, and so does the text
\* when the call fails.
SummarizeText(text, outcome) ==
    IF Len(text) <= SummaryMinLen THEN text
    ELSE IF outcome = "fails" THEN text
    ELSE Summary

\* The messages format_history_for_llm wants summarized.
LongTurns(messages) ==
    {i \in DOMAIN messages : Len(messages[i].content) > SummaryThreshold}

\* One outcome of the summarizer for each of them.
SummarizerChoices(messages) == [LongTurns(messages) -> SummarizerOutcomes]

NoHistory == <<"No previous conversation history.">>

\* The text of the messages: the header and one "ROLE: content" line per
\* message, a long content summarized when a client was passed.
RenderHistory(messages, llm_client, outcomes) ==
    IF messages = <<>> THEN NoHistory
    ELSE <<"PREVIOUS CONVERSATION (Recent context):">> \o
         [i \in DOMAIN messages |->
             <<IF messages[i].role = "user" THEN "USER" ELSE "ASSISTANT",
               IF i \in LongTurns(messages) /\ llm_client
               THEN SummarizeText(messages[i].content, outcomes[i])
               ELSE messages[i].content>>]

\* format_history_for_llm(session_id, llm_client=...), limit left at its
\* default.
FormatHistoryForLlm(history, used, session_id, llm_client, outcomes) ==
    RenderHistory(GetRecentMessages(history, used, session_id, HistoryLimit),
                  llm_client, outcomes)

\* The last call of the store, what it was given and what it returned;
\* sessions and history are the tables as the call found them; of a
\* deletion, others are the messages of the other sessions as the call found
\* them and removed the number of messages the session had.
NoStoreCall ==
    [op |-> "none", session_id |-> "none", role |-> "none", content |-> <<>>,
     limit |-> 0, llm_client |-> FALSE, ok |-> FALSE, messages |-> <<>>,
     text |-> <<>>, repeated |-> FALSE, previous |-> <<>>,
     sessions |-> <<>>, history |-> <<>>, others |-> <<>>, removed |-> 0]

----------------------------------------------------------------------------
(* The schema grounder: modules/schema_extractor.py                        *)

\* SCHEMA_MAX_UNIQUE_VALUES' default: the cardinality ceiling.
MaxUniqueValues == 20

\* The most distinct values a column of the model holds.
MaxDistinct == 22

Namespaces == {"public", "proj_u_p"}

\* The tables excluded from value enrichment.
ExcludedTables ==
    {"chat_history", "session_data", "audit_log", "migrations", "schema_version"}

NoTable == 0 - 1

\* A schema holds the data table "products" (brand text, price numeric) or
\* not; sx_data[ns] is the number of distinct non-null brands of ns.products,
\* NoTable when ns has no such table. The conversation store's tables are in
\* every namespace.
NoData == [ns \in Namespaces |-> NoTable]

\* The distinct non-null values of the text column of ns.table_name: the
\* brands of products; one session id or message in a conversation table.
DistinctCount(ns, table_name) ==
    IF table_name = "products" THEN sx_data[ns] ELSE 1

\* The k-th of them in column order; the values of one schema are not those
\* of another.
Value(ns, table_name, k) == <<ns, table_name, k>>

DistinctValues(ns, table_name) ==
    [k \in 1..DistinctCount(ns, table_name) |-> Value(ns, table_name, k)]

\* _get_all_tables: information_schema.tables of the namespace, by name.
GetAllTables(ns) ==
    (IF sx_data[ns] # NoTable THEN <<"chat_history", "chat_sessions", "products">>
     ELSE <<"chat_history", "chat_sessions">>)

\* _get_table_columns: information_schema.columns of the namespace's table.
GetTableColumns(table_name) ==
    IF table_name = "products"
    THEN << [name |-> "brand", type |-> "text"],
            [name |-> "price", type |-> "numeric"] >>
    ELSE IF table_name = "chat_history"
    THEN << [name |-> "content", type |-> "text"] >>
    ELSE << [name |-> "id", type |-> "character varying"] >>

\* _is_text_column
IsTextColumn(data_type) ==
    data_type \in {"character varying", "varchar", "character", "char",
                   "text", "name", "citext"}

\* The value queries name the table without its schema and run through
\* execute_query, which sets no search path: the name resolves in the
\* connection's default search path, that is in "public".
ResolveUnqualified(table_name) == "public"

\* The distinct count of the table an unqualified value query reads; NoTable
\* when the name does not resolve (the query then raises).
QueriedCount(table_name) ==
    DistinctCount(ResolveUnqualified(table_name), table_name)

\* _check_column_cardinality: COUNT(DISTINCT column); -1 on any error.
CheckColumnCardinality(table_name, query_ok) ==
    IF query_ok /\ QueriedCount(table_name) # NoTable
    THEN QueriedCount(table_name)
    ELSE 0 - 1

\* _get_column_values: the first max_unique_values + 1 distinct values in
\* order; [] on any error.
GetColumnValues(table_name, query_ok) ==
    IF query_ok /\ QueriedCount(table_name) # NoTable
    THEN LET n == QueriedCount(table_name)
             m == IF n <= MaxUniqueValues + 1 THEN n ELSE MaxUniqueValues + 1
         IN  [k \in 1..m |-> Value(ResolveUnqualified(table_name), table_name, k)]
    ELSE <<>>

NoNote == [kind |-> "none", values |-> <<>>, count |-> 0]

\* The note _format_enriched_schema puts under one column.
ColumnNote(table_name, col, count_ok, values_ok) ==
    IF table_name \in ExcludedTables \/ ~IsTextColumn(col.type) THEN NoNote
    ELSE LET cardinality == CheckColumnCardinality(table_name, count_ok) IN
         IF 0 < cardinality /\ cardinality <= MaxUniqueValues
         THEN LET values == GetColumnValues(table_name, values_ok) IN
              IF Len(values) <= MaxUniqueValues
              THEN [kind |-> "values", values |-> values, count |-> 0]
              ELSE [kind |-> "count", values |-> <<>>, count |-> cardinality]
         ELSE IF cardinality > MaxUniqueValues
         THEN [kind |-> "count", values |-> <<>>, count |-> cardinality]
         ELSE NoNote

\* _format_enriched_schema: per table its name, the internal flag, and per
\* column the name, the type and the note.
FormatEnrichedSchema(table_names, count_ok, values_ok) ==
    [t \in DOMAIN table_names |->
        LET columns == GetTableColumns(table_names[t])
        IN  [table |-> table_names[t],
             internal |-> table_names[t] \in ExcludedTables,
             columns |-> [c \in DOMAIN columns |->
                 [name |-> columns[c].name,
                  type |-> columns[c].type,
                  note |-> ColumnNote(table_names[t], columns[c],
                                      count_ok, values_ok)]]]]

\* get_enriched_database_schema(schema_name): whether each of the two value
\* queries succeeds is the backend's choice.
ExtractEnrichedSchema ==
    /\ sx_out = <<>>
    /\ \E count_ok \in BOOLEAN, values_ok \in BOOLEAN :
           sx_out' = FormatEnrichedSchema(GetAllTables(sx_schema),
                                          count_ok, values_ok)
    /\ UNCHANGED <<sx_schema, sx_data>>

----------------------------------------------------------------------------
(* The question pipeline: process_user_question in app.py                  *)

MaxRuns == 2

SessionIds == {"s1", "s2"}

\* st.session_state.session_id of the browser session that asks.
BrowserSession == "s1"

\* The questions asked: a short one and one longer than TitleLen.
ShortQuestion == <<"h","i","?">>
LongQuestion == [i \in 1..(TitleLen + 1) |-> "a"]
Questions == {ShortQuestion, LongQuestion}

\* What the model returns as SQL (no markdown fence, so _clean_sql_output
\* only strips it).
SqlOutputs == {ExSelect1 \o Sp, ExSelectDrop, ExChained}

\* What a call of the Text-Generation Client can do.
ClientOutcomes == {"ok", "fails"}

None == <<"None">>

\* The two labels of the intent prompt.
NeedsDatabase == <<"N","E","E","D","S","_","D","A","T","A","B","A","S","E">>
GeneralChatLabel == <<"G","E","N","E","R","A","L","_","C","H","A","T">>

\* What the model answers to the intent prompt.
IntentOutputs == {NeedsDatabase, GeneralChatLabel, <<"u","n","c","l","e","a","r">>}

\* sub in s
Contains(s, sub) ==
    \E i \in 1..(Len(s) - Len(sub) + 1) : SubSeq(s, i, i + Len(sub) - 1) = sub

\* classify_intent looking for GENERAL_CHAT before NEEDS_DATABASE.
ClassifyIntentChatFirst(outcome, output) ==
    IF outcome = "fails" \/ output = None THEN "NEEDS_DATABASE"
    ELSE LET intent == Upper(Strip(output))
         IN  IF Contains(intent, GeneralChatLabel) THEN "GENERAL_CHAT"
             ELSE "NEEDS_DATABASE"

\* classify_intent: the output stripped and upper-cased; NEEDS_DATABASE when
\* it holds that label, GENERAL_CHAT when it holds that one, NEEDS_DATABASE
\* for any other output, for a message without content and for a failed call.
ClassifyIntent(outcome, output) ==
    IF outcome = "fails" \/ output = None THEN "NEEDS_DATABASE"
    ELSE LET intent == Upper(Strip(output))
         IN  IF Contains(intent, NeedsDatabase) THEN "NEEDS_DATABASE"
             ELSE IF Contains(intent, GeneralChatLabel) THEN "GENERAL_CHAT"
             ELSE "NEEDS_DATABASE"

\* re.split(r'[?\n]+', s): the pieces between the runs of '?' and newline,
\* the empty piece before a leading run and after a trailing one included.
QuestionDelimiters == {"?", "\n"}

RECURSIVE ReSplit(_)
ReSplit(s) ==
    IF \A i \in DOMAIN s : s[i] \notin QuestionDelimiters THEN <<s>>
    ELSE LET k == CHOOSE i \in DOMAIN s :
                      /\ s[i] \in QuestionDelimiters
                      /\ \A j \in 1..(i - 1) : s[j] \notin QuestionDelimiters
             rest == SubSeq(s, k, Len(s))
             m == IF \A i \in DOMAIN rest : rest[i] \in QuestionDelimiters
                  THEN Len(rest) + 1
                  ELSE CHOOSE i \in DOMAIN rest :
                           /\ rest[i] \notin QuestionDelimiters
                           /\ \A j \in 1..(i - 1) : rest[j] \in QuestionDelimiters
         IN  <<SubSeq(s, 1, k - 1)>> \o ReSplit(SubSeq(rest, m, Len(rest)))

\* str.endswith('?')
EndsWithQuestionMark(s) == s # <<>> /\ s[Len(s)] = "?"

\* The loop of split_questions over the pieces.
RECURSIVE CleanedParts(_)
CleanedParts(parts) ==
    IF parts = <<>> THEN <<>>
    ELSE LET cleaned == Strip(Head(parts))
         IN  IF cleaned = <<>> THEN CleanedParts(Tail(parts))
             ELSE <<IF EndsWithQuestionMark(cleaned) THEN cleaned
                    ELSE cleaned \o <<"?">> >> \o CleanedParts(Tail(parts))

\* split_questions(user_input)
SplitQuestions(user_input) ==
    LET questions == CleanedParts(ReSplit(user_input))
    IN  IF questions # <<>> THEN questions ELSE <<Strip(user_input)>>

\* No function called, and a call that has not returned.
NoFunction == [op |-> "none", outcome |-> "none", input |-> <<>>]
NotReturned == [done |-> FALSE, label |-> "none", list |-> <<>>]

\* general_chat: the reply, or its fixed fallback text when the call fails.
GeneralChat(outcome) ==
    IF outcome = "ok" THEN <<"chat reply">>
    ELSE <<"I'm here to help you query and analyze your data.">>

\* describe_data_rows: the narrative, or the fallback listing of the rows.
DescribeDataRows(outcome) ==
    IF outcome = "ok" THEN <<"narrative">> ELSE <<"Showing rows">>

\* What the model returns as the answer: a text longer than SummaryThreshold
\* (the replies of the other branches are short ones).
LongAnswer == [i \in 1..(SummaryThreshold + 1) |-> "a"]
AnswerOutputs == {LongAnswer}

NoRun ==
    [session_id |-> None, user_question |-> None, chat_history |-> None,
     intent |-> "none", sql_query |-> None, corrected_sql |-> None,
     results |-> None, data_description |-> None, returned |-> None]

\* The history variable: the collaborator calls of the current run.
NoLog ==
    [before |-> <<>>,       \* the session's rows when the run began
     generated |-> <<>>,    \* text_to_sql calls: the query each returned
     retries |-> <<>>,      \* retry_query_on_empty_results calls: arguments
     validated |-> {},      \* the strings validate_sql accepted
     executed |-> <<>>,     \* the strings given to execute_sql
     exec_ok |-> <<>>,      \* execute_sql's success flag, call by call
     exec_rows |-> <<>>,    \* the rows execute_sql returned, call by call
     synthesized |-> 0,     \* result_to_english calls
     pool |-> <<>>,         \* pool_used before and after each execute_sql
     contexts |-> <<>>,     \* the history strings rendered for the client
     raised |-> FALSE]      \* the run ended in the outer except clause

\* A history string given to the client: the messages it was rendered from
\* and the messages for which the summarizer was called and failed.
Context(messages, context, outcomes) ==
    [messages |-> messages, history |-> context,
     failed |-> {i \in DOMAIN outcomes : outcomes[i] = "fails"}]

PipeInit ==
    /\ pool_used = 0
    /\ chat_sessions = [s \in SessionIds |-> NoRow]
    /\ chat_history = <<>>
    /\ clock = 0
    /\ recent_query_results = <<>>
    /\ pc = "idle"
    /\ run = NoRun
    /\ log = NoLog
    /\ runs = 0

\* insert_message twice: the user turn, then the assistant turn.
StoreTurnsWith(used, answer) ==
    LET first == Now(clock, chat_history)
        one == InsertMessage(chat_sessions, chat_history, used,
                             run.session_id, "user", run.user_question, first)
        second == Now(first, one.history)
        two == InsertMessage(one.sessions, one.history, used,
                             run.session_id, "assistant", answer, second)
    IN  /\ chat_sessions' = two.sessions
        /\ chat_history' = two.history
        /\ clock' = second

StoreTurns(answer) == StoreTurnsWith(pool_used, answer)

\* Lines 576-580: the call, with the history read for context.
Ask ==
    /\ pc = "idle"
    /\ runs < MaxRuns
    /\ \E sid \in {BrowserSession}, q \in Questions :
        LET messages ==
                GetRecentMessages(chat_history, pool_used, sid, HistoryLimit)
        IN  \E outcomes \in SummarizerChoices(messages) :
            LET context == FormatHistoryForLlm(chat_history, pool_used, sid,
                                               TRUE, outcomes)
            IN  /\ run' = [NoRun EXCEPT !.session_id = sid,
                                        !.user_question = q,
                                        !.chat_history = context]
                /\ log' = [NoLog EXCEPT
                       !.before = SessionRows(chat_history, sid),
                       !.contexts = <<Context(messages, context, outcomes)>>]
    /\ runs' = runs + 1
    /\ pc' = "classify"
    /\ UNCHANGED <<dbVars, recent_query_results>>
    /\ UNCHANGED aside

\* Lines 587-600: intent classification and routing.
Classify ==
    /\ pc = "classify"
    /\ \E outcome \in ClientOutcomes, output \in IntentOutputs :
        LET intent == ClassifyIntent(outcome, output)
        IN  /\ run' = [run EXCEPT !.intent = intent]
            /\ pc' = IF intent = "GENERAL_CHAT" THEN "general" ELSE "text_to_sql"
    /\ UNCHANGED <<dbVars, recent_query_results, log, runs>>
    /\ UNCHANGED aside

\* Lines 600-608: the general-chat route.
GeneralChatRoute ==
    /\ pc = "general"
    /\ \E outcome \in ClientOutcomes :
        LET answer == GeneralChat(outcome)
        IN  /\ StoreTurns(answer)
            /\ run' = [run EXCEPT !.returned = answer]
    /\ pc' = "done"
    /\ UNCHANGED <<pool_used, recent_query_results, log, runs>>
    /\ UNCHANGED aside

\* Lines 811-814: the outer except clause returns the error text; nothing
\* is written to the store.
OuterExcept(called) ==
    /\ run' = [run EXCEPT !.returned = <<"Error: ", "client call failed">>]
    /\ log' = [called EXCEPT !.raised = TRUE]
    /\ pc' = "done"
    /\ UNCHANGED <<dbVars, recent_query_results, runs>>

\* Lines 614-620: text_to_sql; it re-raises a failure of the client.
TextToSql ==
    /\ pc = "text_to_sql"
    /\ \/ \E raw \in SqlOutputs :
            /\ run' = [run EXCEPT !.sql_query = Strip(raw)]
            /\ log' = [log EXCEPT !.generated = Append(@, Strip(raw))]
            /\ pc' = "validate"
            /\ UNCHANGED <<dbVars, recent_query_results, runs>>
       \/ OuterExcept([log EXCEPT !.generated = Append(@, None)])
    /\ UNCHANGED aside

\* Lines 628-638: the gate on the first query; a rejected query ends the run
\* with the validation message stored.
ValidateFirst ==
    /\ pc = "validate"
    /\ LET verdict == Validate(run.sql_query)
       IN  IF ~verdict.ok
           THEN LET error_msg == <<"SQL Validation Failed: ", verdict.reason>>
                IN  /\ StoreTurns(error_msg)
                    /\ run' = [run EXCEPT !.returned = error_msg]
                    /\ UNCHANGED log
                    /\ pc' = "done"
           ELSE /\ log' = [log EXCEPT !.validated = @ \cup {run.sql_query}]
                /\ pc' = "execute"
                /\ UNCHANGED <<chat_sessions, chat_history, clock, run>>
    /\ UNCHANGED <<pool_used, recent_query_results, runs>>
    /\ UNCHANGED aside

\* The history variable after execute_sql(query) returned res.
Executed(query, res) ==
    [log EXCEPT !.executed = Append(@, query),
                !.exec_ok = Append(@, res.success),
                !.exec_rows = Append(@, res.results),
                !.pool = Append(@, <<pool_used, res.used>>)]

\* Lines 641-655: the first execution; a failure ends the run with the error
\* stored, zero rows lead to the corrective regeneration.
ExecuteFirst ==
    /\ pc = "execute"
    /\ \E backend \in BackendOutcomes :
        LET res == SQLExecutorExecute(pool_used, backend)
            called == Executed(run.sql_query, res)
        IN  /\ pool_used' = res.used
            /\ IF ~res.success
               THEN LET error_msg == <<"Query Execution Failed: ", res.error>>
                    IN  /\ StoreTurnsWith(res.used, error_msg)
                        /\ run' = [run EXCEPT !.returned = error_msg]
                        /\ log' = called
                        /\ pc' = "done"
               ELSE /\ run' = [run EXCEPT !.results = res.results]
                    /\ log' = called
                    /\ pc' = IF res.results = <<>> THEN "retry" ELSE "show"
                    /\ UNCHANGED <<chat_sessions, chat_history, clock>>
    /\ UNCHANGED <<recent_query_results, runs>>
    /\ UNCHANGED aside

\* RetryGenerate asking for the correction of the question alone, the failed
\* query left out.
RetryGenerateNoQuery ==
    /\ pc = "retry"
    /\ LET call == [failed_sql |-> None, user_question |-> run.user_question]
       IN  /\ log' = [log EXCEPT !.retries = Append(@, call)]
           /\ \/ \E raw \in SqlOutputs :
                    /\ run' = [run EXCEPT !.corrected_sql = Strip(raw)]
                    /\ pc' = "retry_validate"
              \/ /\ pc' = "show"
                 /\ UNCHANGED run
    /\ UNCHANGED <<dbVars, recent_query_results, runs>>
    /\ UNCHANGED aside

\* Lines 658-672 and 692-694: the history is read again and the corrected
\* query asked for; a failure of the client is caught here and the run goes
\* on with the empty result.
RetryGenerate ==
    /\ pc = "retry"
    /\ LET call == [failed_sql |-> run.sql_query,
                    user_question |-> run.user_question]
           messages == GetRecentMessages(chat_history, pool_used,
                                         run.session_id, HistoryLimit)
           context == FormatHistoryForLlm(chat_history, pool_used,
                                          run.session_id, FALSE, <<>>)
       IN  /\ log' = [log EXCEPT
                  !.retries = Append(@, call),
                  !.contexts = Append(@, Context(messages, context, <<>>))]
           /\ \/ \E raw \in SqlOutputs :
                    /\ run' = [run EXCEPT !.chat_history = context,
                                          !.corrected_sql = Strip(raw)]
                    /\ pc' = "retry_validate"
              \/ /\ run' = [run EXCEPT !.chat_history = context]
                 /\ pc' = "show"
    /\ UNCHANGED <<dbVars, recent_query_results, runs>>
    /\ UNCHANGED aside

\* RetryValidate with the gate's verdict ignored.
RetryValidateSkipped ==
    /\ pc = "retry_validate"
    /\ pc' = "retry_execute"
    /\ UNCHANGED <<dbVars, recent_query_results, run, log, runs>>
    /\ UNCHANGED aside

\* Lines 674-676 and 689-690: the gate on the corrected query.
RetryValidate ==
    /\ pc = "retry_validate"
    /\ IF Validate(run.corrected_sql).ok
       THEN /\ log' = [log EXCEPT !.validated = @ \cup {run.corrected_sql}]
            /\ pc' = "retry_execute"
       ELSE /\ pc' = "show"
            /\ UNCHANGED log
    /\ UNCHANGED <<dbVars, recent_query_results, run, runs>>
    /\ UNCHANGED aside

\* RetryExecute with a corrected query that again finds nothing sent back to
\* the corrective regeneration.
RetryExecuteLoops ==
    /\ pc = "retry_execute"
    /\ \E backend \in BackendOutcomes :
        LET res == SQLExecutorExecute(pool_used, backend)
        IN  /\ pool_used' = res.used
            /\ log' = Executed(run.corrected_sql, res)
            /\ run' = IF res.success
                      THEN [run EXCEPT !.results = res.results,
                                       !.sql_query = run.corrected_sql]
                      ELSE run
            /\ pc' = IF res.success /\ res.results = <<>> THEN "retry" ELSE "show"
    /\ UNCHANGED <<chat_sessions, chat_history, clock, recent_query_results, runs>>
    /\ UNCHANGED aside

\* Lines 677-688: the corrected query is executed; its rows replace the
\* empty result only when it succeeds.
RetryExecute ==
    /\ pc = "retry_execute"
    /\ \E backend \in BackendOutcomes :
        LET res == SQLExecutorExecute(pool_used, backend)
        IN  /\ pool_used' = res.used
            /\ log' = Executed(run.corrected_sql, res)
            /\ run' = IF res.success
                      THEN [run EXCEPT !.results = res.results,
                                       !.sql_query = run.corrected_sql]
                      ELSE run
    /\ pc' = "show"
    /\ UNCHANGED <<chat_sessions, chat_history, clock, recent_query_results, runs>>
    /\ UNCHANGED aside

\* The number of queries kept in recent_query_results.
MaxRecent == 2

\* Lines 697-786: the result panel. Rows are remembered for follow-up
\* questions (the last MaxRecent queries) and described; a failure of the
\* description is swallowed.
ShowResults ==
    /\ pc = "show"
    /\ IF run.results # <<>>
       THEN /\ LET entry == [question |-> run.user_question,
                             sql |-> run.sql_query,
                             results |-> run.results]
                   appended == Append(recent_query_results, entry)
               IN  recent_query_results' =
                       IF Len(appended) > MaxRecent THEN Tail(appended)
                       ELSE appended
            /\ \E outcome \in ClientOutcomes :
                   run' = [run EXCEPT !.data_description = DescribeDataRows(outcome)]
       ELSE UNCHANGED <<recent_query_results, run>>
    /\ pc' = "answer"
    /\ UNCHANGED <<dbVars, log, runs>>
    /\ UNCHANGED aside

\* Lines 789-809: the answer is synthesized, joined to the narrative, stored
\* and returned; result_to_english re-raises a failure of the client.
Answer ==
    /\ pc = "answer"
    /\ LET called == [log EXCEPT !.synthesized = @ + 1]
       IN  \/ \E answer \in AnswerOutputs :
              LET full_response ==
                      IF run.data_description # None
                      THEN <<"Data Overview">> \o run.data_description
                               \o <<"Summary">> \o answer
                      ELSE answer
              IN  /\ StoreTurns(full_response)
                  /\ run' = [run EXCEPT !.returned = full_response]
                  /\ log' = called
                  /\ pc' = "done"
                  /\ UNCHANGED <<pool_used, recent_query_results, runs>>
           \/ /\ OuterExcept(called)
    /\ UNCHANGED aside

\* The call has returned and its locals are gone; the next question may be
\* asked.
Return ==
    /\ pc = "done"
    /\ pc' = "idle"
    /\ run' = NoRun
    /\ log' = NoLog
    /\ UNCHANGED <<dbVars, recent_query_results, runs>>
    /\ UNCHANGED aside

Next ==
    \/ Ask
    \/ Classify
    \/ GeneralChatRoute
    \/ TextToSql
    \/ ValidateFirst
    \/ ExecuteFirst
    \/ RetryGenerate
    \/ RetryValidate
    \/ RetryExecute
    \/ ShowResults
    \/ Answer
    \/ Return

\* The components a specification does not exercise stay as constructed.
GateIdle == gq = <<>> /\ gres = NoVerdict
SanIdle == sname = <<>> /\ sres = NoResult
SxIdle == sx_schema = "public" /\ sx_data = NoData /\ sx_out = <<>>
\* A database with its system schemas and no project yet.
PmIdle ==
    /\ pm_schemas = ProtectedSchemas
    /\ pm_tables = {<<Public, "chat_history">>, <<PgCatalog, "pg_class">>}
    /\ pm_created = {}
    /\ pm_ret = NoCall
StIdle == written = 0 /\ set_back = 0 /\ st_ret = NoStoreCall
FnIdle == fcall = NoFunction /\ fret = NotReturned

\* No process_user_question call yet.
NotAsked ==
    [op |-> "none", schema |-> None, schema_name |-> None,
     handed |-> FALSE, recent |-> <<>>]

\* initialize_session_state: no project is open and no schema is loaded.
UiIdle ==
    /\ active_schema = None
    /\ schema_text = None
    /\ db_connected = FALSE
    /\ asked = NotAsked

Init ==
    /\ PipeInit
    /\ GateIdle
    /\ SanIdle
    /\ SxIdle
    /\ PmIdle
    /\ StIdle
    /\ UiIdle
    /\ FnIdle

Spec == Init /\ [][Next]_vars

----------------------------------------------------------------------------
(* Properties of the pipeline.                                             *)

SessionNow == SessionRows(chat_history, run.session_id)

\* C1: whichever way a run of process_user_question ends, the session's
\* stored history has gained exactly the user turn holding the question and
\* then one assistant turn.
C1_TurnPairStored ==
    pc = "done" =>
        /\ Len(SessionNow) = Len(log.before) + 2
        /\ SubSeq(SessionNow, 1, Len(log.before)) = log.before
        /\ SessionNow[Len(log.before) + 1].role = "user"
        /\ SessionNow[Len(log.before) + 1].content = run.user_question
        /\ SessionNow[Len(log.before) + 2].role = "assistant"

\* C2: every string given to execute_sql, the first query and the corrected
\* one alike, had been accepted by validate_sql in the same run before; a
\* string the gate rejects is never executed.
C2_ExecutedOnlyIfValidated ==
    \A i \in DOMAIN log.executed :
        /\ log.executed[i] \in log.validated
        /\ Validate(log.executed[i]).ok

C2_Witness ==
    /\ pc = "done"
    /\ Len(log.executed) = 2
    /\ log.executed[1] # log.executed[2]

\* C5: a run makes at most two SQL generations (text_to_sql and at most one
\* retry_query_on_empty_results) and at most two execute_sql calls.
C5_AtMostTwoCalls ==
    /\ Len(log.generated) <= 1
    /\ Len(log.retries) <= 1
    /\ Len(log.executed) <= 2

C5_Witness ==
    /\ pc = "done"
    /\ Len(log.generated) = 1
    /\ Len(log.retries) = 1
    /\ Len(log.executed) = 2

\* The first query passed the gate and its execution returned zero rows.
FirstQueryEmpty ==
    /\ Len(log.generated) = 1
    /\ log.generated[1] # None
    /\ Validate(log.generated[1]).ok
    /\ Len(log.exec_ok) >= 1
    /\ log.exec_ok[1]
    /\ log.exec_rows[1] = <<>>

\* C6: the corrective regeneration is called exactly once when the first
\* query passed the gate and returned zero rows, with the question and the
\* failed query as arguments, and never in any other case nor a second time.
C6_RetryExactlyWhenEmpty ==
    /\ Len(log.retries) <= 1
    /\ Len(log.retries) = 1 =>
           /\ FirstQueryEmpty
           /\ log.retries[1] = [failed_sql |-> log.generated[1],
                                user_question |-> run.user_question]
    /\ (pc \in {"show", "answer", "done"} /\ FirstQueryEmpty) =>
           Len(log.retries) = 1

C6_Witness ==
    /\ pc = "done"
    /\ Len(log.retries) = 1
    /\ log.exec_ok = <<TRUE, FALSE>>

\* C7: the run returns a string, and that string is the content of the
\* assistant turn the run stored.
C7_ReturnsStoredAnswer ==
    pc = "done" =>
        /\ run.returned # None
        /\ Len(SessionNow) > Len(log.before)
        /\ SessionNow[Len(SessionNow)].role = "assistant"
        /\ SessionNow[Len(SessionNow)].content = run.returned

\* C8: execute_sql leaves as many connections checked out as it found, on
\* success and on a backend error alike, so the pool is never used up.
C8_ExecuteReleasesConnection ==
    /\ \A i \in DOMAIN log.pool : log.pool[i][2] = log.pool[i][1]
    /\ CanGetConnection(pool_used)

\* C14: in every history string a run gives to the client, a turn whose
\* stored content is longer than the threshold stands as the summarizer's
\* output, not as the stored text, unless the summarizer call for it failed.
C14_LongTurnsSummarized ==
    \A c \in DOMAIN log.contexts :
        LET context == log.contexts[c]
        IN  \A i \in LongTurns(context.messages) :
                i \notin context.failed =>
                    /\ context.history[i + 1][2] # context.messages[i].content
                    /\ context.history[i + 1][2] = Summary

\* C20: when the first query returned zero rows and the execution of the
\* corrected query fails, result_to_english is not called and the run
\* returns, and stores as the assistant turn, the execution failure message.
C20_FailedRetryEndsRun ==
    (FirstQueryEmpty /\ log.exec_ok = <<TRUE, FALSE>>) =>
        /\ log.synthesized = 0
        /\ pc = "done" =>
               /\ run.returned # None
               /\ run.returned[1] = "Query Execution Failed: "
               /\ SessionNow[Len(SessionNow)].content = run.returned

----------------------------------------------------------------------------
(* The safety gate alone, on every bounded query.                          *)

PipeIdle == PipeInit

GateInit ==
    /\ PipeIdle
    /\ gq \in GateInputs
    /\ gres = NoVerdict
    /\ SanIdle
    /\ SxIdle
    /\ PmIdle
    /\ StIdle
    /\ UiIdle
    /\ FnIdle

GateNext == ValidateSql /\ UNCHANGED <<pipeVars, sanVars, sxVars, pmVars, stVars, fnVars, uiVars>>

SpecGate == GateInit /\ [][GateNext]_vars

\* The maximal runs of word characters of s.
Words(s) ==
    { SubSeq(s, i, j) : <<i, j>> \in
        { p \in (DOMAIN s) \X (DOMAIN s) :
            /\ p[1] <= p[2]
            /\ \A k \in p[1]..p[2] : s[k] \in WordChars
            /\ (p[1] = 1 \/ s[p[1] - 1] \notin WordChars)
            /\ (p[2] = Len(s) \/ s[p[2] + 1] \notin WordChars) } }

\* A deny-listed keyword is a whole word of q, in any case.
HasKeywordWord(q) ==
    \E w \in Words(q) : Upper(w) \in Range(DANGEROUS_KEYWORDS)

\* q without its leading whitespace and "--" comment lines.
RECURSIVE SkipLeadingComments(_)
SkipLeadingComments(q) ==
    LET t == LStrip(q)
    IN  IF ~StartsWith(t, <<"-", "-">>) THEN t
        ELSE IF \E i \in DOMAIN t : t[i] = "\n"
        THEN LET i == CHOOSE k \in DOMAIN t :
                          t[k] = "\n" /\ \A j \in 1..(k - 1) : t[j] # "\n"
             IN  SkipLeadingComments(SubSeq(t, i + 1, Len(t)))
        ELSE <<>>

BeginsWithSelect(q) == StartsWith(Upper(SkipLeadingComments(q)), KwSelect)

\* C3: an accepted query is a single statement: outside string literals it
\* has no ';' except one trailing terminator, so no ';' is followed by
\* further statement text.
C3_SingleStatement ==
    gres.ok =>
        LET t == RStrip(RemoveStringLiterals(gq))
        IN  \A i \in DOMAIN t : t[i] = ";" => i = Len(t)

\* C4: a query with a deny-listed keyword as a whole word is rejected; a
\* query that does not begin with SELECT after its leading comment lines and
\* whitespace is rejected; "SELECT 1;" is accepted and
\* "SELECT 1; DROP TABLE x;" rejected; a SELECT in which keywords occur only
\* inside longer identifiers is not rejected by the keyword rule.
C4_GateSound ==
    gres # NoVerdict =>
        /\ HasKeywordWord(gq) => ~gres.ok
        /\ ~BeginsWithSelect(gq) => ~gres.ok
        /\ gq = ExSelect1 => gres.ok
        /\ gq = ExSelectDrop => ~gres.ok
        /\ (BeginsWithSelect(gq) /\ ~HasKeywordWord(gq)) =>
               gres.reason # "Dangerous operation detected"

C4_Witness ==
    /\ gq = ExCreatedAt
    /\ gres # NoVerdict
    /\ gres.ok

----------------------------------------------------------------------------
(* The sanitizer alone, on every bounded name.                             *)

SanInit ==
    /\ PipeIdle
    /\ GateIdle
    /\ sname \in NameInputs
    /\ sres = NoResult
    /\ SxIdle
    /\ PmIdle
    /\ StIdle
    /\ UiIdle
    /\ FnIdle

SanNext == Sanitize /\ UNCHANGED <<pipeVars, gateVars, sxVars, pmVars, stVars, fnVars, uiVars>>

SpecSan == SanInit /\ [][SanNext]_vars

IsIdentifier(v) ==
    /\ v # <<>>
    /\ v[1] \in LowerSet
    /\ \A i \in DOMAIN v : v[i] \in LowerSet \cup Digits \cup {"_"}

\* C10: sanitize_name either raises or returns a string that matches
\* ^[a-z][a-z0-9_]*$ and has at most 63 characters.
C10_SanitizedIsIdentifier ==
    sres # NoResult =>
        \/ sres.raised
        \/ IsIdentifier(sres.value) /\ Len(sres.value) <= MaxIdentLen

----------------------------------------------------------------------------
(* The schema grounder alone, on every bounded database.                   *)

SxInit ==
    /\ PipeIdle
    /\ GateIdle
    /\ SanIdle
    /\ sx_schema \in Namespaces
    /\ sx_data \in [Namespaces -> {NoTable} \cup 0..MaxDistinct]
    /\ sx_out = <<>>
    /\ PmIdle
    /\ StIdle
    /\ UiIdle
    /\ FnIdle

SxNext == ExtractEnrichedSchema /\ UNCHANGED <<pipeVars, gateVars, sanVars, pmVars, stVars, fnVars, uiVars>>

SpecSchema == SxInit /\ [][SxNext]_vars

\* The note the description carries for products.brand.
BrandNote ==
    LET t == CHOOSE k \in DOMAIN sx_out : sx_out[k].table = "products"
    IN  sx_out[t].columns[1].note

\* C9: for the text column of the namespace's data table, a distinct count
\* in (0, ceiling] gives a list of exactly the namespace's distinct values, a
\* count above the ceiling gives a count note and no list, and a list that
\* is empty or partial is never given.
C9_GroundedValues ==
    (sx_out # <<>> /\ sx_data[sx_schema] # NoTable) =>
        LET n == sx_data[sx_schema] IN
        /\ (0 < n /\ n <= MaxUniqueValues) =>
               /\ BrandNote.kind = "values"
               /\ BrandNote.values = DistinctValues(sx_schema, "products")
        /\ n > MaxUniqueValues => BrandNote.kind = "count"
        /\ BrandNote.kind = "values" =>
               /\ BrandNote.values # <<>>
               /\ BrandNote.values = DistinctValues(sx_schema, "products")

----------------------------------------------------------------------------
(* The project manager alone: projects created, listed and deleted.        *)

\* create_project calls that have left a schema behind.
MaxProjects == 2

ProjOwners == { <<"a">>, <<"a", "b">>, <<>> }

\* <<user_id, project_name>> handed to create_project.
CreateInputs ==
    (ProjOwners \X { <<"x">>, <<"-">> })
        \cup { <<<<"a">>, <<"e'">>>>, <<<<"a">>, LongName>> }

\* <<user_id, project_name>> of the dashboard's form.
PressInputs == { <<"a">>, <<"a", "b">> } \X { <<"x">>, <<"-">> }

\* Names handed to delete_project: the schemas that exist, and two that do
\* not.
DeleteNames ==
    pm_schemas \cup ProtectedSchemas \cup { <<"x">>, SchemaPrefix \o <<"z">> }

PmOthers == <<pipeVars, gateVars, sanVars, sxVars, stVars, fnVars, uiVars>>

PmCreate ==
    \E input \in CreateInputs, db \in DbOutcomes :
        LET user_id == input[1]
            project_name == input[2]
            r == CreateProject(pm_schemas, pm_tables, user_id, project_name, db)
            schema_name == ComposeSchemaName(user_id, project_name)
            created == IF schema_name \in r.schemas
                       THEN pm_created \cup
                                {<<SanitizeName(user_id).value, schema_name>>}
                       ELSE pm_created
        IN  /\ Cardinality(created) <= MaxProjects
            /\ pm_schemas' = r.schemas
            /\ pm_tables' = r.tables
            /\ pm_created' = created
            /\ pm_ret' = [NoCall EXCEPT !.op = "create", !.user_id = user_id,
                              !.name = project_name, !.db = db,
                              !.raised = r.raised, !.value = r.value,
                              !.schemas = pm_schemas, !.tables = pm_tables]
            /\ UNCHANGED PmOthers

PmDelete ==
    \E schema_name \in DeleteNames, db \in DbOutcomes :
        LET r == DeleteProject(pm_schemas, pm_tables, schema_name, db)
        IN  /\ pm_schemas' = r.schemas
            /\ pm_tables' = r.tables
            /\ pm_created' = {c \in pm_created : c[2] \in r.schemas}
            /\ pm_ret' = [NoCall EXCEPT !.op = "delete", !.name = schema_name,
                              !.db = db, !.deleted = r.deleted,
                              !.raised = r.raised,
                              !.schemas = pm_schemas, !.tables = pm_tables]
            /\ UNCHANGED PmOthers

\* The dashboard is shown to a user who gave an id, and the button acts on
\* a project name that is not empty.
PmPressCreate ==
    \E input \in PressInputs,
       db \in DbOutcomes, ingest \in IngestOutcomes, cleanup \in DbOutcomes :
        LET user_id == input[1]
            project_name == input[2]
            r == PressCreateProject(pm_schemas, pm_tables, user_id,
                                    project_name, db, ingest, cleanup)
            schema_name == ComposeSchemaName(user_id, project_name)
            created == {c \in pm_created : c[2] \in r.schemas} \cup
                       (IF schema_name \in r.schemas
                        THEN {<<SanitizeName(user_id).value, schema_name>>}
                        ELSE {})
        IN  /\ ingest = "ok" => cleanup = "ok"
            /\ Cardinality(created) <= MaxProjects
            /\ pm_schemas' = r.schemas
            /\ pm_tables' = r.tables
            /\ pm_created' = created
            /\ pm_ret' = [NoCall EXCEPT !.op = "press create",
                              !.user_id = user_id, !.name = project_name,
                              !.db = db, !.raised = r.failed,
                              !.schemas = pm_schemas, !.tables = pm_tables]
            /\ UNCHANGED PmOthers

PmList ==
    \E user_id \in ProjOwners, db \in DbOutcomes :
        /\ pm_ret' = [NoCall EXCEPT !.op = "list", !.user_id = user_id,
                          !.db = db,
                          !.listed = ListUserProjects(pm_schemas, user_id, db),
                          !.schemas = pm_schemas, !.tables = pm_tables]
        /\ UNCHANGED <<pm_schemas, pm_tables, pm_created>>
        /\ UNCHANGED PmOthers

PmInit ==
    /\ PipeIdle
    /\ GateIdle
    /\ SanIdle
    /\ SxIdle
    /\ PmIdle
    /\ StIdle
    /\ UiIdle
    /\ FnIdle

PmNext ==
    \/ PmCreate
    \/ PmDelete
    \/ PmList

SpecProj == PmInit /\ [][PmNext]_vars

\* What is left of a name before sanitize_name falls back to "unknown".
Cleaned(name) == DropNonWord(ReplaceSpaces(Lower(Strip(name))))

\* C11: create_project returns only names that match ^[a-z][a-z0-9_]*$ and
\* have at most 63 characters; when a sanitized input is empty or the
\* composed name is longer than 63 characters it raises and creates no
\* schema.
C11_CreateValidates ==
    pm_ret.op = "create" =>
        /\ ~pm_ret.raised =>
               /\ IsIdentifier(pm_ret.value)
               /\ Len(pm_ret.value) <= MaxIdentLen
        /\ (\/ Cleaned(pm_ret.user_id) = <<>>
            \/ Cleaned(pm_ret.name) = <<>>
            \/ Len(ComposeSchemaName(pm_ret.user_id, pm_ret.name)) > MaxIdentLen)
               => /\ pm_ret.raised
                  /\ pm_schemas = pm_ret.schemas

\* C12: delete_project drops a schema only when the name starts with proj_
\* and is none of the protected names, and then only that schema and its
\* tables; for every other name all schemas and tables are still there.
C12_DeleteOnlyProjects ==
    pm_ret.op = "delete" =>
        /\ pm_schemas \subseteq pm_ret.schemas
        /\ pm_tables \subseteq pm_ret.tables
        /\ pm_ret.schemas \ pm_schemas \subseteq {pm_ret.name}
        /\ \A t \in pm_ret.tables \ pm_tables : t[1] = pm_ret.name
        /\ (\/ ~StartsWith(pm_ret.name, SchemaPrefix)
            \/ pm_ret.name \in {Public, InformationSchema, PgCatalog, PgToast})
               => /\ pm_schemas = pm_ret.schemas
                  /\ pm_tables = pm_ret.tables
                  /\ ~pm_ret.deleted

C12_Witness ==
    /\ pm_ret.op = "delete"
    /\ pm_ret.deleted
    /\ pm_ret.name \in pm_ret.schemas \ pm_schemas
    /\ <<pm_ret.name, ProjectTables>> \in pm_ret.tables \ pm_tables

\* C13: when its catalog query succeeds, list_user_projects(owner) returns
\* every existing schema create_project made for that owner, and no schema
\* it made only for owners with another sanitized id.
C13_ListOnlyOwn ==
    (pm_ret.op = "list" /\ pm_ret.db # "first fails") =>
        LET owner == SanitizeName(pm_ret.user_id).value
            own == {c[2] : c \in {d \in pm_created : d[1] = owner}}
            foreign == {c[2] : c \in {d \in pm_created : d[1] # owner}}
        IN  /\ own \subseteq pm_ret.listed
            /\ \A schema_name \in foreign \ own :
                   schema_name \notin pm_ret.listed


\* The dashboard alone: the 'Create Project' button pressed again and again.
DashNext == PmPressCreate

SpecDash == PmInit /\ [][DashNext]_vars

\* C23: when the 'Create Project' action fails, every schema that existed
\* before it, and every table of such a schema, is still there, a schema of
\* the same owner and project created earlier included.
C23_FailedCreateKeepsProjects ==
    (pm_ret.op = "press create" /\ pm_ret.raised) =>
        /\ pm_ret.schemas \subseteq pm_schemas
        /\ pm_ret.tables \subseteq pm_tables

\* C21: delete_project refuses a name without the proj_ prefix, and a
\* protected name, by raising: the caller never gets a normal return from a
\* refused deletion.
C21_RefusalRaises ==
    (pm_ret.op = "delete" /\ ~MayDelete(pm_ret.name)) => pm_ret.raised

----------------------------------------------------------------------------
(* The conversation store alone: messages written, read and deleted, with  *)
(* a wall clock that can be set back between two writes.                   *)

\* Messages written in one behaviour.
MaxMessages == 2

\* The largest limit asked of get_recent_messages.
MaxLimit == 2

\* Times the wall clock is set back (a clock correction, or the end of
\* daylight saving time: datetime.now() is local time).
MaxSetBack == 1

\* The turns written: a user turn, and an assistant turn longer than
\* SummaryThreshold.
StoreTurnInputs == { <<"user", ShortQuestion>>, <<"assistant", LongAnswer>> }

StOthers ==
    <<recent_query_results, pc, run, log, runs, gateVars, sanVars, sxVars,
      pmVars, fnVars, uiVars>>

StCall(op, session_id) ==
    [NoStoreCall EXCEPT !.op = op, !.session_id = session_id,
                        !.sessions = chat_sessions, !.history = chat_history]

StDeletion(op, session_id) ==
    [NoStoreCall EXCEPT
        !.op = op, !.session_id = session_id, !.sessions = chat_sessions,
        !.others = SelectSeq(chat_history,
                             LAMBDA row : row.session_id # session_id),
        !.removed = Len(SessionRows(chat_history, session_id))]

StInsert ==
    /\ written < MaxMessages
    /\ written' = written + 1
    /\ \E session_id \in SessionIds, turn \in StoreTurnInputs :
        LET now == Now(clock, chat_history)
            r == InsertMessage(chat_sessions, chat_history, pool_used,
                               session_id, turn[1], turn[2], now)
        IN  /\ chat_sessions' = r.sessions
            /\ chat_history' = r.history
            /\ clock' = now
            /\ st_ret' = [StCall("insert", session_id) EXCEPT
                             !.role = turn[1], !.content = turn[2], !.ok = r.ok]
    /\ UNCHANGED <<pool_used, set_back>>
    /\ UNCHANGED StOthers

StGetRecent ==
    /\ \E session_id \in SessionIds, limit \in 0..MaxLimit :
        st_ret' = [StCall("get", session_id) EXCEPT
                      !.limit = limit,
                      !.messages = GetRecentMessages(chat_history, pool_used,
                                                     session_id, limit)]
    /\ UNCHANGED <<dbVars, written, set_back>>
    /\ UNCHANGED StOthers

StFormat ==
    /\ \E session_id \in SessionIds, llm_client \in BOOLEAN :
        LET messages == GetRecentMessages(chat_history, pool_used, session_id,
                                          HistoryLimit)
        IN  \E outcomes \in SummarizerChoices(messages) :
            st_ret' = [StCall("format", session_id) EXCEPT
                          !.llm_client = llm_client,
                          !.text = FormatHistoryForLlm(chat_history, pool_used,
                                       session_id, llm_client, outcomes),
                          !.repeated = /\ st_ret.op = "format"
                                       /\ st_ret.session_id = session_id
                                       /\ st_ret.llm_client = llm_client,
                          !.previous = IF /\ st_ret.op = "format"
                                          /\ st_ret.session_id = session_id
                                          /\ st_ret.llm_client = llm_client
                                       THEN st_ret.text ELSE <<>>]
    /\ UNCHANGED <<dbVars, written, set_back>>
    /\ UNCHANGED StOthers

StClear ==
    /\ \E session_id \in SessionIds :
        /\ chat_history' = ClearSessionHistory(chat_history, pool_used, session_id)
        /\ st_ret' = [StDeletion("clear", session_id) EXCEPT
                         !.ok = ExecuteQueryOk(pool_used)]
    /\ UNCHANGED <<pool_used, chat_sessions, clock, written, set_back>>
    /\ UNCHANGED StOthers

StDelete ==
    /\ \E session_id \in SessionIds :
        LET r == DeleteSession(chat_sessions, chat_history, pool_used, session_id)
        IN  /\ chat_sessions' = r.sessions
            /\ chat_history' = r.history
            /\ st_ret' = [StDeletion("delete", session_id) EXCEPT
                             !.ok = ExecuteQueryOk(pool_used)]
    /\ UNCHANGED <<pool_used, clock, written, set_back>>
    /\ UNCHANGED StOthers

\* The machine's clock is set back by more than the time between two
\* writes: the next reading is earlier than one taken before.
ClockSetBack ==
    /\ set_back < MaxSetBack
    /\ written > 0
    /\ clock' = clock - (ClockStep + 1)
    /\ set_back' = set_back + 1
    /\ UNCHANGED <<pool_used, chat_sessions, chat_history, written, st_ret>>
    /\ UNCHANGED StOthers

\* The store as the application finds it: empty, with a pool that still has
\* connections or one used up by failed executions.
StInit ==
    /\ pool_used \in {0, MaxConn}
    /\ chat_sessions = [s \in SessionIds |-> NoRow]
    /\ chat_history = <<>>
    /\ clock = 0
    /\ recent_query_results = <<>>
    /\ pc = "idle"
    /\ run = NoRun
    /\ log = NoLog
    /\ runs = 0
    /\ GateIdle
    /\ SanIdle
    /\ SxIdle
    /\ PmIdle
    /\ StIdle
    /\ UiIdle
    /\ FnIdle

StNext ==
    \/ StInsert
    \/ StGetRecent
    \/ StFormat
    \/ StClear
    \/ StDelete
    \/ ClockSetBack

SpecStore == StInit /\ [][StNext]_vars

\* C15: format_history_for_llm changes no stored session and no stored
\* message, and a call repeated with the same arguments, no other call of
\* the store in between, returns the same string.
C15_FormatReadOnlyIdempotent ==
    st_ret.op = "format" =>
        /\ chat_sessions = st_ret.sessions
        /\ chat_history = st_ret.history
        /\ st_ret.repeated => st_ret.text = st_ret.previous

\* C16: get_recent_messages(session, N) returns min(N, stored turns of the
\* session) messages, the N turns of the session appended last, in the order
\* they were appended, and no message of another session.
C16_RecentInAppendOrder ==
    (st_ret.op = "get" /\ CanGetConnection(pool_used)) =>
        LET rows == SessionRows(chat_history, st_ret.session_id)
            n == IF st_ret.limit < Len(rows) THEN st_ret.limit ELSE Len(rows)
        IN  /\ Len(st_ret.messages) = n
            /\ \A k \in 1..n :
                   LET row == rows[Len(rows) - n + k]
                   IN  /\ st_ret.messages[k].role = row.role
                       /\ st_ret.messages[k].content = row.content
                       /\ st_ret.messages[k].timestamp = row.timestamp

\* C17: insert_message creates the session row when there is none and
\* stores the message with the content it was given; a session row that
\* exists keeps its creation time and its name (a placeholder name apart,
\* which a user turn replaces by the title); a missing session row is never
\* why the call fails.
C17_InsertSelfHealing ==
    st_ret.op = "insert" =>
        LET before == st_ret.sessions[st_ret.session_id]
            after == chat_sessions[st_ret.session_id]
        IN  /\ CanGetConnection(pool_used) => st_ret.ok
            /\ st_ret.ok =>
                   /\ after # NoRow
                   /\ Len(chat_history) = Len(st_ret.history) + 1
                   /\ SubSeq(chat_history, 1, Len(st_ret.history)) = st_ret.history
                   /\ chat_history[Len(chat_history)].session_id = st_ret.session_id
                   /\ chat_history[Len(chat_history)].role = st_ret.role
                   /\ chat_history[Len(chat_history)].content = st_ret.content
                   /\ before # NoRow =>
                          /\ after.created_at = before.created_at
                          /\ \/ after.name = before.name
                             \/ before.name = NewChat /\ st_ret.role = "user"

C17_Witness ==
    /\ st_ret.op = "insert"
    /\ st_ret.ok
    /\ st_ret.sessions[st_ret.session_id] = NoRow
    /\ chat_sessions[st_ret.session_id] # NoRow
    /\ st_ret.content = LongAnswer
    /\ chat_history[Len(chat_history)].content = LongAnswer


----------------------------------------------------------------------------
(* The intent classifier alone, on every bounded model output.             *)

\* Fragments of a model output put together.
MaxIntentFrags == 2

IntentFragments ==
    { NeedsDatabase, GeneralChatLabel, Lower(NeedsDatabase),
      Lower(GeneralChatLabel), <<"G","E","N","E","R","A","L">>,
      <<"_","C","H","A","T">>, <<" ">>, <<"\n">>, <<"x">> }

\* The model's outputs, a message without content among them.
IntentTexts ==
    { Concat(fs) : fs \in UNION { [1..n -> IntentFragments] :
                                      n \in 0..MaxIntentFrags } } \cup {None}

FnOthers == <<pipeVars, gateVars, sanVars, sxVars, pmVars, stVars, uiVars>>

\* classify_intent(user_query, chat_history), the client call ending as
\* fcall says.
CallClassifyIntent ==
    /\ fcall.op = "classify_intent"
    /\ ~fret.done
    /\ fret' = [NotReturned EXCEPT
                   !.done = TRUE,
                   !.label = ClassifyIntent(fcall.outcome, fcall.input)]
    /\ UNCHANGED fcall
    /\ UNCHANGED FnOthers

IntentInit ==
    /\ PipeIdle
    /\ GateIdle
    /\ SanIdle
    /\ SxIdle
    /\ PmIdle
    /\ StIdle
    /\ UiIdle
    /\ fcall \in [op : {"classify_intent"}, outcome : ClientOutcomes,
                  input : IntentTexts]
    /\ fret = NotReturned

IntentNext == CallClassifyIntent

SpecIntent == IntentInit /\ [][IntentNext]_vars

\* The label occurs in the output, in whatever case it is written.
HasLabel(label, output) ==
    /\ output # None
    /\ \E i \in 1..(Len(output) - Len(label) + 1) :
           Lower(SubSeq(output, i, i + Len(label) - 1)) = Lower(label)

\* C18: classify_intent returns one of the two labels, and GENERAL_CHAT
\* exactly when the client call succeeded and the output holds the
\* GENERAL_CHAT label and not the NEEDS_DATABASE label; an empty or
\* unrecognised output, one with both labels and a failed call give
\* NEEDS_DATABASE.
C18_IntentDefaultsToDatabase ==
    (fcall.op = "classify_intent" /\ fret.done) =>
        /\ fret.label \in {"NEEDS_DATABASE", "GENERAL_CHAT"}
        /\ fret.label = "GENERAL_CHAT" <=>
               /\ fcall.outcome = "ok"
               /\ HasLabel(GeneralChatLabel, fcall.input)
               /\ ~HasLabel(NeedsDatabase, fcall.input)

C18_Witness ==
    /\ fcall.op = "classify_intent"
    /\ fret.done
    /\ fcall.outcome = "ok"
    /\ fcall.input = GeneralChatLabel \o NeedsDatabase
    /\ fret.label = "NEEDS_DATABASE"

----------------------------------------------------------------------------
(* The question splitter alone, on every bounded input.                    *)

\* Fragments of a submitted text put together.
MaxQuestionFrags == 4

QuestionFragments == { <<"a">>, <<"?">>, <<"\n">>, <<" ">> }

\* "What is X? What is Y"
ExTwoQuestions ==
    <<"W","h","a","t"," ","i","s"," ","X","?"," ",
      "W","h","a","t"," ","i","s"," ","Y">>
\* "no question mark here"
ExNoQuestionMark ==
    <<"n","o"," ","q","u","e","s","t","i","o","n"," ",
      "m","a","r","k"," ","h","e","r","e">>

\* The texts submitted: the prompt is split only when it is not empty.
QuestionInputs ==
    { Concat(fs) : fs \in UNION { [1..n -> QuestionFragments] :
                                      n \in 1..MaxQuestionFrags } }
        \cup {ExTwoQuestions, ExNoQuestionMark}

\* split_questions(prompt)
CallSplitQuestions ==
    /\ fcall.op = "split_questions"
    /\ ~fret.done
    /\ fret' = [NotReturned EXCEPT !.done = TRUE,
                                   !.list = SplitQuestions(fcall.input)]
    /\ UNCHANGED fcall
    /\ UNCHANGED FnOthers

SplitInit ==
    /\ PipeIdle
    /\ GateIdle
    /\ SanIdle
    /\ SxIdle
    /\ PmIdle
    /\ StIdle
    /\ UiIdle
    /\ fcall \in [op : {"split_questions"}, outcome : {"ok"},
                  input : QuestionInputs]
    /\ fret = NotReturned

SplitNext == CallSplitQuestions

SpecSplit == SplitInit /\ [][SplitNext]_vars

\* The places where a fragment of s begins: a character that is no
\* delimiter, at the start or after a delimiter.
FragmentStarts(s) ==
    {i \in DOMAIN s : /\ s[i] \notin {"?", "\n"}
                      /\ (i = 1 \/ s[i - 1] \in {"?", "\n"})}

\* The fragment of s that begins at i.
FragmentAt(s, i) ==
    LET j == CHOOSE e \in i..Len(s) :
                 /\ \A k \in i..e : s[k] \notin {"?", "\n"}
                 /\ (e = Len(s) \/ s[e + 1] \in {"?", "\n"})
    IN  SubSeq(s, i, j)

\* The fragments of s that are more than white space, in their order.
RECURSIVE FragmentsFrom(_, _)
FragmentsFrom(s, starts) ==
    IF starts = {} THEN <<>>
    ELSE LET i == CHOOSE m \in starts : \A n \in starts : m <= n
             fragment == Strip(FragmentAt(s, i))
         IN  (IF fragment = <<>> THEN <<>> ELSE <<fragment>>)
                 \o FragmentsFrom(s, starts \ {i})

\* C19: split_questions returns the fragments of the input between '?' and
\* newline, in their order, each stripped, none empty and each ending with
\* a '?' put after it.
C19_SplitsIntoQuestions ==
    (fcall.op = "split_questions" /\ fret.done) =>
        LET fragments == FragmentsFrom(fcall.input, FragmentStarts(fcall.input))
        IN  /\ Len(fret.list) = Len(fragments)
            /\ \A i \in DOMAIN fret.list :
                   /\ fret.list[i] = fragments[i] \o <<"?">>
                   /\ fret.list[i] # <<>>
                   /\ Strip(fret.list[i]) = fret.list[i]


\* The messages of the sessions other than session_id, in their order.
OtherRows(history, session_id) ==
    SelectSeq(history, LAMBDA row : row.session_id # session_id)

\* C22: after delete_session(s) the session has no row and no message, and
\* after clear_session_history(s) it has no message and the row it had;
\* the rows and the messages of every other session are as they were.
C22_DeletionIsLocal ==
    (st_ret.op \in {"delete", "clear"} /\ st_ret.ok) =>
        /\ SessionRows(chat_history, st_ret.session_id) = <<>>
        /\ OtherRows(chat_history, st_ret.session_id) = st_ret.others
        /\ \A o \in SessionIds \ {st_ret.session_id} :
               chat_sessions[o] = st_ret.sessions[o]
        /\ st_ret.op = "delete" => chat_sessions[st_ret.session_id] = NoRow
        /\ st_ret.op = "clear" =>
               chat_sessions[st_ret.session_id] = st_ret.sessions[st_ret.session_id]

C22_Witness ==
    /\ st_ret.op = "delete"
    /\ st_ret.ok
    /\ st_ret.removed > 0
    /\ st_ret.sessions[st_ret.session_id] # NoRow
    /\ st_ret.others # <<>>
    /\ chat_history = st_ret.others


----------------------------------------------------------------------------
(* Schema names alone: what create_project composes of owner and project,  *)
(* and what list_user_projects reads back from it.                         *)

\* The longest owner id and project name.
MaxPartLen == 2

\* Owner ids and project names for two create_project calls.
PartNames == UNION { [1..n -> {"a", "_"}] : n \in 1..MaxPartLen }

\* Owner ids and project names created and listed.
ListedNames == UNION { [1..n -> {"a", "B", "_", " "}] : n \in 1..MaxPartLen }

\* create_project(o1, p1) and create_project(o2, p2) on a database without
\* projects, every statement succeeding.
CallCreateTwice ==
    /\ fcall.op = "create_project twice"
    /\ ~fret.done
    /\ LET first == CreateProject(ProtectedSchemas, {}, fcall.input[1],
                                  fcall.input[2], "ok")
           second == CreateProject(first.schemas, first.tables, fcall.input[3],
                                   fcall.input[4], "ok")
       IN  fret' = [NotReturned EXCEPT !.done = TRUE,
                                       !.list = <<first.value, second.value>>]
    /\ UNCHANGED fcall
    /\ UNCHANGED FnOthers

\* create_project(owner, project), then list_user_projects(owner): the
\* entries of the list for the schema created.
CallCreateAndList ==
    /\ fcall.op = "create_project and list"
    /\ ~fret.done
    /\ LET created == CreateProject(ProtectedSchemas, {}, fcall.input[1],
                                    fcall.input[2], "ok")
           listed == ListUserProjects(created.schemas, fcall.input[1], "ok")
       IN  fret' = [NotReturned EXCEPT
                       !.done = TRUE,
                       !.list = IF created.value \in listed
                                THEN <<ListEntry(created.value)>> ELSE <<>>]
    /\ UNCHANGED fcall
    /\ UNCHANGED FnOthers

NamesInit ==
    /\ PipeIdle
    /\ GateIdle
    /\ SanIdle
    /\ SxIdle
    /\ PmIdle
    /\ StIdle
    /\ UiIdle
    /\ \/ fcall \in [op : {"create_project twice"}, outcome : {"ok"},
                     input : PartNames \X PartNames \X PartNames \X PartNames]
       \/ fcall \in [op : {"create_project and list"}, outcome : {"ok"},
                     input : ListedNames \X ListedNames]
    /\ fret = NotReturned

NamesNext ==
    \/ CallCreateTwice
    \/ CallCreateAndList

SpecNames == NamesInit /\ [][NamesNext]_vars

\* C24: two create_project calls return the same schema name only when the
\* sanitized owner ids are the same and the sanitized project names are the
\* same.
C24_SchemaNameInjective ==
    (fcall.op = "create_project twice" /\ fret.done
        /\ fret.list[1] = fret.list[2]) =>
        /\ SanitizeName(fcall.input[1]).value = SanitizeName(fcall.input[3]).value
        /\ SanitizeName(fcall.input[2]).value = SanitizeName(fcall.input[4]).value

\* A string in title case: each letter that follows no letter is upper
\* case, every other letter is lower case.
InTitleCase(s) ==
    \A i \in DOMAIN s :
        IsLetter(s[i]) =>
            IF i > 1 /\ IsLetter(s[i - 1]) THEN s[i] \notin UpperSet
            ELSE s[i] \notin LowerSet

\* C29: list_user_projects(owner) reports the schema of
\* create_project(owner, project) with project_name sanitize_name(project)
\* and display_name that name with spaces for its underscores, in title
\* case, whatever the owner id.
C29_ListReportsProjectName ==
    (fcall.op = "create_project and list" /\ fret.done) =>
        LET project == SanitizeName(fcall.input[2]).value
        IN  /\ Len(fret.list) = 1
            /\ fret.list[1].project_name = project
            /\ Len(fret.list[1].display_name) = Len(project)
            /\ InTitleCase(fret.list[1].display_name)
            /\ \A i \in DOMAIN project :
                   /\ project[i] = "_" => fret.list[1].display_name[i] = " "
                   /\ project[i] # "_" =>
                          LowerChar(fret.list[1].display_name[i]) = project[i]


----------------------------------------------------------------------------
(* The executor alone: where an unqualified table name resolves.           *)

ProjA == SchemaPrefix \o <<"a","_","x">>
ProjB == SchemaPrefix \o <<"b","_","x">>

\* The tables a query names, and the tables a database may hold.
QueriedTables == {"products", "chat_history"}
PossibleTables == {Public, ProjA, ProjB} \X QueriedTables

\* SQLExecutor.execute(query, schema_name), fcall.input being the tables of
\* the database, the namespace and the table the query names.
CallExecute ==
    /\ fcall.op = "execute"
    /\ ~fret.done
    /\ LET r == ExecuteOnTable(fcall.input[1], fcall.input[2], fcall.input[3])
       IN  fret' = [NotReturned EXCEPT
                       !.done = TRUE,
                       !.label = IF r.success THEN "ok" ELSE "fails",
                       !.list = r.read]
    /\ UNCHANGED fcall
    /\ UNCHANGED FnOthers

ExecInit ==
    /\ PipeIdle
    /\ GateIdle
    /\ SanIdle
    /\ SxIdle
    /\ PmIdle
    /\ StIdle
    /\ UiIdle
    /\ fcall \in [op : {"execute"}, outcome : {"ok"},
                  input : (SUBSET PossibleTables) \X {ProjA, ProjB}
                              \X QueriedTables]
    /\ fret = NotReturned

ExecNext == CallExecute

SpecExec == ExecInit /\ [][ExecNext]_vars

\* C25: a query run in a namespace reads an unqualified table name from
\* that namespace's table, and fails when the namespace has no table of
\* that name, whatever tables of that name other schemas have.
C25_ResolvesInNamespaceOnly ==
    (fcall.op = "execute" /\ fret.done) =>
        IF <<fcall.input[2], fcall.input[3]>> \in fcall.input[1]
        THEN fret.label = "ok" /\ fret.list = <<fcall.input[2]>>
        ELSE fret.label = "fails"


\* The tables ensure_tables creates for the conversation store.
ConversationTables == {"chat_sessions", "chat_history"}

\* C27: the description shows a table of the conversation store with its
\* bare columns, flagged as internal: no column of it carries a list of
\* values or a count read from its contents.
C27_ConversationTablesBare ==
    \A t \in DOMAIN sx_out :
        sx_out[t].table \in ConversationTables =>
            /\ sx_out[t].internal
            /\ \A c \in DOMAIN sx_out[t].columns :
                   sx_out[t].columns[c].note = NoNote


----------------------------------------------------------------------------
(* The session title: insert_message calls written to the store one after  *)
(* the other.                                                              *)

\* Calls of insert_message in one behaviour.
MaxTitleTurns == 3

\* The turns written: user turns up to and above TitleLen characters, a user
\* turn whose text is the default session name, and an assistant turn.
TitleTurnInputs ==
    { <<"user", ShortQuestion>>, <<"user", LongQuestion>>,
      <<"user", NewChat>>, <<"assistant", ShortQuestion>> }

TitleInsert ==
    /\ written < MaxTitleTurns
    /\ written' = written + 1
    /\ \E session_id \in SessionIds, turn \in TitleTurnInputs :
        LET now == Now(clock, chat_history)
            r == InsertMessage(chat_sessions, chat_history, pool_used,
                               session_id, turn[1], turn[2], now)
        IN  /\ chat_sessions' = r.sessions
            /\ chat_history' = r.history
            /\ clock' = now
            /\ st_ret' = [StCall("insert", session_id) EXCEPT
                             !.role = turn[1], !.content = turn[2], !.ok = r.ok]
    /\ UNCHANGED <<pool_used, set_back>>
    /\ UNCHANGED StOthers

TitleNext == TitleInsert

SpecTitle == StInit /\ [][TitleNext]_vars

\* C28: an insert_message call names the session after the turn's content
\* (cut to TitleLen characters and "..." when longer) when the turn is the
\* first user turn of a session still named 'New Chat'; every other
\* insert_message call leaves the session's name as it was.
C28_TitleFromFirstUserTurnOnly ==
    (st_ret.op = "insert" /\ st_ret.ok) =>
        LET sid == st_ret.session_id
            earlier == st_ret.history
            had_user == \E i \in DOMAIN earlier :
                            /\ earlier[i].session_id = sid
                            /\ earlier[i].role = "user"
            name_before == IF st_ret.sessions[sid] = NoRow
                           THEN NewChat
                           ELSE st_ret.sessions[sid].name
            name_after == chat_sessions[sid].name
        IN  IF st_ret.role = "user" /\ ~had_user /\ name_before = NewChat
            THEN name_after =
                     IF Len(st_ret.content) > TitleLen
                     THEN SubSeq(st_ret.content, 1, TitleLen) \o <<".", ".", ".">>
                     ELSE st_ret.content
            ELSE name_after = name_before


----------------------------------------------------------------------------
(* The browser session: app.py, show_project_dashboard and                 *)
(* show_chat_interface. One action is one script run started by a widget.  *)

\* The namespaces list_user_projects shows the user.
ProjP == SchemaPrefix \o <<"u","_","p">>
ProjQ == SchemaPrefix \o <<"u","_","q">>
UserProjects == {ProjP, ProjQ}

\* get_enriched_database_schema(schema_name): the description of that
\* namespace.
GetEnrichedDatabaseSchema(schema_name) == <<"Database Schema of ">> \o schema_name

\* The text area's value after the user has changed it.
Edited(text) == text \o <<" (edited)">>

IsEdited(text) == text[Len(text)] = " (edited)"

\* How a question ends: answered without SQL, answered from rows, no rows
\* after the corrective regeneration, or a failure after SQL generation.
AskOutcomes == {"chat", "rows", "empty", "fails"}

UiOthers ==
    <<dbVars, pc, run, log, runs, gateVars, sanVars, sxVars, pmVars, stVars,
      fnVars>>

\* 'Connect to Public' on the dashboard.
ConnectToPublic ==
    /\ active_schema = None
    /\ active_schema' = Public
    /\ UNCHANGED <<schema_text, db_connected, asked, recent_query_results>>
    /\ UNCHANGED UiOthers

\* 'Open Project' on the dashboard, and a successful 'Create Project'.
OpenProject ==
    /\ active_schema = None
    /\ \E project \in UserProjects : active_schema' = project
    /\ UNCHANGED <<schema_text, db_connected, asked, recent_query_results>>
    /\ UNCHANGED UiOthers

\* 'Switch Project' that keeps the loaded description.
SwitchProjectKeepsSchema ==
    /\ active_schema # None
    /\ \E project \in UserProjects :
        /\ project # active_schema
        /\ active_schema' = project
    /\ UNCHANGED <<schema_text, db_connected, asked, recent_query_results>>
    /\ UNCHANGED UiOthers

\* 'Switch Project' in the sidebar: the selected project differs from the
\* active one.
SwitchProject ==
    /\ active_schema # None
    /\ \E project \in UserProjects :
        /\ project # active_schema
        /\ active_schema' = project
    /\ schema_text' = None
    /\ db_connected' = FALSE
    /\ UNCHANGED <<asked, recent_query_results>>
    /\ UNCHANGED UiOthers

\* 'Back to Projects' in the sidebar.
BackToProjects ==
    /\ active_schema # None
    /\ active_schema' = None
    /\ schema_text' = None
    /\ db_connected' = FALSE
    /\ UNCHANGED <<asked, recent_query_results>>
    /\ UNCHANGED UiOthers

\* load_schema(active_schema), run by the sidebar when no schema is loaded.
LoadSchema ==
    /\ ~db_connected
    /\ active_schema # None
    /\ \E loaded \in BOOLEAN :
        IF loaded
        THEN /\ schema_text' = GetEnrichedDatabaseSchema(active_schema)
             /\ db_connected' = TRUE
        ELSE /\ db_connected' = FALSE
             /\ UNCHANGED schema_text
    /\ UNCHANGED <<active_schema, asked, recent_query_results>>
    /\ UNCHANGED UiOthers

\* 'Update Schema': the editor is shown when schema_text is set; one edit
\* stands for any number of them.
UpdateSchema ==
    /\ active_schema # None
    /\ schema_text # None
    /\ ~IsEdited(schema_text)
    /\ schema_text' = Edited(schema_text)
    /\ UNCHANGED <<active_schema, db_connected, asked, recent_query_results>>
    /\ UNCHANGED UiOthers

\* 'Clear Chat': an exception in the handler leaves the list as it is.
ClearChat ==
    /\ active_schema # None
    /\ \E cleared \in BOOLEAN :
        recent_query_results' = IF cleared THEN <<>> ELSE recent_query_results
    /\ UNCHANGED <<active_schema, schema_text, db_connected, asked>>
    /\ UNCHANGED UiOthers

\* A question typed into the chat input, which is shown once a schema is
\* loaded: process_user_question(question, schema_text, active_schema). An
\* entry of recent_query_results keeps the question and the namespace its
\* query ran on.
AskQuestion ==
    /\ active_schema # None
    /\ db_connected
    /\ \E outcome \in AskOutcomes :
        /\ asked' = [op |-> "ask", schema |-> schema_text,
                     schema_name |-> active_schema,
                     handed |-> outcome # "chat",
                     recent |-> IF outcome # "chat"
                                THEN recent_query_results ELSE <<>>]
        /\ recent_query_results' =
               IF outcome = "rows"
               THEN LET entry == [question |-> ShortQuestion,
                                  schema_name |-> active_schema]
                        appended == Append(recent_query_results, entry)
                    IN  IF Len(appended) > MaxRecent THEN Tail(appended)
                        ELSE appended
               ELSE recent_query_results
    /\ UNCHANGED <<active_schema, schema_text, db_connected>>
    /\ UNCHANGED UiOthers

UiNext ==
    \/ ConnectToPublic
    \/ OpenProject
    \/ SwitchProject
    \/ BackToProjects
    \/ LoadSchema
    \/ UpdateSchema
    \/ ClearChat
    \/ AskQuestion

SpecChat == Init /\ [][UiNext]_vars

\* C26: the recent results handed to SQL generation were all produced by
\* queries that ran on the namespace active at the time of the question.
C26_RecentResultsOfActiveNamespace ==
    (asked.op = "ask" /\ asked.handed) =>
        \A i \in DOMAIN asked.recent :
            asked.recent[i].schema_name = asked.schema_name

\* C30: the schema description handed to process_user_question is the one
\* load_schema loaded for the namespace active at the time of the question,
\* or the user's edit of it.
C30_SchemaOfActiveNamespace ==
    asked.op = "ask" =>
        asked.schema \in
            { GetEnrichedDatabaseSchema(asked.schema_name),
              Edited(GetEnrichedDatabaseSchema(asked.schema_name)) }

\* A question asked in one project after a question was answered from rows
\* in another.
C30_Witness ==
    /\ asked.op = "ask"
    /\ asked.handed
    /\ asked.recent # <<>>
    /\ asked.recent[1].schema_name # asked.schema_name
    /\ asked.schema = Edited(GetEnrichedDatabaseSchema(asked.schema_name))


=============================================================================
